---------------------------- MODULE Spec2Model ----------------------------
(***************************************************************************)
(* Model of the sical-ws report service (DiputacionSevilla/sical-ws).      *)
(*                                                                         *)
(*   core/xsig_pdf.py  container unwrapper, signature/certificate          *)
(*                     validator, XSIG -> PDF pipeline                     *)
(*   core/service.py   conformity-report assembler, XSIG wrapper           *)
(*   core/areas.py     memoized area table loader                          *)
(*   api/main.py       HTTP endpoints /api/xml2pdf and /api/informe        *)
(*                                                                         *)
(* Bytes and strings are sequences of one-character strings, so that       *)
(* find / rfind / slicing / strip are computed position by position.       *)
(* Indexes handed around by the Python code are 0-based and are kept       *)
(* 0-based here; TLA+ sequences are 1-based.                               *)
(***************************************************************************)
EXTENDS Integers, Sequences, FiniteSets, TLC

VARIABLES
    \* ---- container unwrapper (SpecUnwrap) ----
    xsig_bytes,     \* argument of _extract_xml_from_xsig_bytes
    xml_bytes,      \* its return value
    unwrap_pc,      \* "call" before the call, "ret" after it
    \* ---- signature / certificate validator (SpecSig) ----
    xml_root,       \* the parsed document handed to the validator
    crypto_has_utc, \* does the cryptography library expose not_valid_*_utc
    now,            \* the UTC clock read by datetime.now(timezone.utc)
    firma,          \* the dict _extract_signature_info_from_xml returned
    sig_calls,      \* decoding calls the validator made
    sig_pc,         \* "call", "ret", or "raised" if an exception escaped
    \* ---- POST /api/xml2pdf (Spec, LiveSpec) ----
    form,           \* the date/time form fields of the request
    et_doc,         \* the tree the root element of the upload stands for
    pc,             \* the step the handler is at
    fecha_registro, \* dt_obj, then the normalised registration datetime
    exc,            \* the exception in flight
    invoice_data,   \* the record _extract_invoice_data_from_xml returned
    calls,          \* extractor / renderer invocations
    pdf,            \* what _generate_pdf_from_invoice returned
    response,       \* the HTTP response
    \* ---- POST /api/informe and the conformity assembler (SpecInforme) ----
    body,           \* the JSON body / payload dict of the request
    entry,          \* "api": through the endpoint, "service": direct call
    payload,        \* the dict handed to the assembler
    files,          \* area CSV files on disk
    logo_files,     \* logo files on disk
    areas_cache,    \* the lru_cache of cargar_diccionario_areas
    areas_loaded,   \* per CSV path, the table its first load in this process gave
    inf_pc,         \* the step the handler is at
    area,           \* area_code, area_name, area_logo
    inf_exc,        \* the exception the assembler raised
    acta_data,      \* the dict handed to generate_acta_pdf, None if not called
    inf_response,   \* the HTTP response
    \* ---- concurrent calls of cargar_diccionario_areas (SpecRace) ----
    threads,        \* per request thread: position and locals of its call
    \* ---- the renderer's withheld-tax label (SpecRate) ----
    withheld_rate,  \* d.get("rate", ""): the rate text of a withheld tax
    rate,           \* _fmt_rate's result, None before the call
    \* ---- the server log ----
    logged,
    \* ---- sanitize_text and make_safe_filename (SpecSanitize, SpecFilename) ----
    util_value,
    util_max_length,
    util_result,
    util_pc,
    \* ---- the validator called on its own (SpecOrder) ----
    sig_info,
    \* ---- core.config: the Oracle client (SpecOracle) ----
    _CLIENT_INITED,
    cx_Oracle,
    init_attempts,
    oracle_calls,
    oracle_result,
    connection

unwrapVars == <<xsig_bytes, xml_bytes, unwrap_pc>>
sigVars == <<xml_root, crypto_has_utc, now, firma, sig_calls, sig_pc>>
pipeVars ==
    <<form, et_doc, pc, fecha_registro, exc, invoice_data, calls, pdf, response>>

infVars ==
    <<body, entry, payload, files, logo_files, areas_cache, areas_loaded,
      inf_pc, area, inf_exc, acta_data, inf_response>>

raceVars == <<threads>>
rateVars == <<withheld_rate, rate>>

logVars == <<logged>>

utilVars == <<util_value, util_max_length, util_result, util_pc>>

orderVars == <<sig_info>>

oracleVars ==
    <<_CLIENT_INITED, cx_Oracle, init_attempts, oracle_calls, oracle_result,
      connection>>

\* the variables of the specifications of single functions
pureVars == <<utilVars, orderVars, oracleVars>>

\* the variables of the request handlers
handlerVars ==
    <<unwrapVars, sigVars, pipeVars, infVars, raceVars, rateVars, logVars>>

vars == <<unwrapVars, sigVars, pipeVars, infVars, raceVars, rateVars, logVars, pureVars>>

(***************************************************************************)
(* Bounds of the model.                                                    *)
(***************************************************************************)
\* number of chunks an input byte sequence is concatenated from
MaxChunks == 4
\* the time line is 0..MaxTime (clock, certificate window, signing time)
MaxTime == 3
\* request threads running at the same time
MaxThreads == 2

(***************************************************************************)
(* Python bytes/str helpers (0-based indexes, -1 for "not found").         *)
(***************************************************************************)
Min(a, b) == IF a < b THEN a ELSE b
Max(a, b) == IF a > b THEN a ELSE b

\* s[a:b] for 0 <= a, 0 <= b
Slice(s, a, b) == SubSeq(s, a + 1, Min(b, Len(s)))

\* does sub occur in s at 0-based index i
OccursAt(s, sub, i) ==
    /\ i >= 0
    /\ i + Len(sub) <= Len(s)
    /\ \A k \in 1..Len(sub) : s[i + k] = sub[k]

\* bytes.find(sub): lowest index of an occurrence, -1 when there is none
find(s, sub) ==
    LET hits == {i \in 0..Len(s) : OccursAt(s, sub, i)}
    IN  IF hits = {} THEN -1
        ELSE CHOOSE i \in hits : \A j \in hits : i <= j

\* bytes.rfind(sub): highest index of an occurrence, -1 when there is none
rfind(s, sub) ==
    LET hits == {i \in 0..Len(s) : OccursAt(s, sub, i)}
    IN  IF hits = {} THEN -1
        ELSE CHOOSE i \in hits : \A j \in hits : i >= j

RECURSIVE Flatten(_)
Flatten(ss) == IF ss = <<>> THEN <<>> ELSE Head(ss) \o Flatten(Tail(ss))

(***************************************************************************)
(* 4.1 Container Unwrapper: core/xsig_pdf.py                               *)
(***************************************************************************)
XML_MARKER == <<"<", "?", "x", "m", "l">>
GT == <<">">>

\* variant: the end marker is searched forward (first ">") instead of backward
extract_xml_first_gt(b) ==
    LET xml_start == find(b, XML_MARKER)
        xml_end   == find(b, GT) + 1
    IN  IF xml_start # -1 /\ xml_end > xml_start
        THEN Slice(b, xml_start, xml_end)
        ELSE b

\* variant: the guard on the end index is dropped
extract_xml_no_guard(b) ==
    LET xml_start == find(b, XML_MARKER)
        xml_end   == rfind(b, GT) + 1
    IN  IF xml_start # -1
        THEN Slice(b, xml_start, xml_end)
        ELSE b

_extract_xml_from_xsig_bytes(b) ==
    LET xml_start == find(b, XML_MARKER)
        xml_end   == rfind(b, GT) + 1
    IN  IF xml_start # -1 /\ xml_end > xml_start
        THEN Slice(b, xml_start, xml_end)
        ELSE b

\* the pieces container inputs are built from: the marker, a cut-off marker,
\* the closing bracket, an opening bracket and a payload byte
Chunks == {XML_MARKER, GT, <<"<">>, <<"a">>, <<"<", "?", "x">>}

ChunkSeqs == UNION {[1..n -> Chunks] : n \in 0..MaxChunks}

ContainerInputs == {Flatten(cs) : cs \in ChunkSeqs}

ExtractXml ==
    /\ unwrap_pc = "call"
    /\ xml_bytes' = _extract_xml_from_xsig_bytes(xsig_bytes)
    /\ unwrap_pc' = "ret"
    /\ UNCHANGED xsig_bytes

(***************************************************************************)
(* Python call results: a call either returns a value or raises.           *)
(***************************************************************************)
Ret(v) == [raised |-> FALSE, val |-> v]
Raise(e) == [raised |-> TRUE, exc |-> e]

(***************************************************************************)
(* datetime values.  wall is the wall-clock reading, aware says whether a  *)
(* tzinfo is attached and off is its UTC offset (0 when naive).            *)
(***************************************************************************)
Times == 0..MaxTime
Offsets == {-1, 0, 1}

Naive(w) == [wall |-> w, aware |-> FALSE, off |-> 0]
Aware(w, o) == [wall |-> w, aware |-> TRUE, off |-> o]

\* dt.replace(tzinfo=timezone.utc): the wall clock is kept, the zone attached
replace_tzinfo_utc(dt) == Aware(dt.wall, 0)

\* dt.astimezone(timezone.utc) of an aware dt: same instant, offset 0
astimezone_utc(dt) == Aware(dt.wall - dt.off, 0)

\* comparing a naive with an aware datetime raises TypeError
Comparable(a, b) == a.aware = b.aware

\* a <= b and a < b on comparable datetimes: aware ones compare as instants
dt_le(a, b) == (a.wall - a.off) <= (b.wall - b.off)
dt_lt(a, b) == (a.wall - a.off) < (b.wall - b.off)

\* dt.strftime("%Y-%m-%d")
strftime_ymd(dt) == <<"%Y-%m-%d", dt.wall>>

(***************************************************************************)
(* The text of a ds:X509Certificate element.  base64.b64decode raises      *)
(* binascii.Error on text that is not base64, load_der_x509_certificate    *)
(* raises ValueError on bytes that are no DER certificate.                 *)
(***************************************************************************)
MISSING == "<missing>"

EmptyText == [kind |-> "empty"]
NotBase64Text == [kind |-> "not_base64"]
NotDerText == [kind |-> "not_der"]
CertText(c) == [kind |-> "cert", cert |-> c]

\* a certificate: is its subject name decodable, the attributes it carries
\* (MISSING when the certificate has none) and its validity window
Cert(sok, cn, nif, icn, alg, nb, na) ==
    [subject_ok |-> sok, cn |-> cn, serial |-> nif, issuer_cn |-> icn,
     hash_alg |-> alg, not_before |-> nb, not_after |-> na]

FullCert(nb, na) == Cert(TRUE, "ACME SA", "B12345678", "AC FNMT", "sha256", nb, na)

\* certificates with every attribute and every window, inverted ones included
WindowCerts == {FullCert(nb, na) : nb \in Times, na \in Times}

\* certificates over one window with attributes missing
AttrCerts ==
    { Cert(TRUE, MISSING, "B12345678", "AC FNMT", "sha256", 1, 2),
      Cert(TRUE, "ACME SA", MISSING, "AC FNMT", "sha256", 1, 2),
      Cert(TRUE, "ACME SA", "B12345678", MISSING, "sha256", 1, 2),
      Cert(TRUE, "ACME SA", "B12345678", "AC FNMT", MISSING, 1, 2),
      Cert(TRUE, MISSING, MISSING, MISSING, MISSING, 1, 2),
      Cert(FALSE, "ACME SA", "B12345678", "AC FNMT", "sha256", 1, 2) }

CertTexts ==
    {EmptyText, NotBase64Text, NotDerText}
        \cup {CertText(c) : c \in WindowCerts \cup AttrCerts}

\* the texts a second ds:X509Certificate element is drawn from
ChainTexts == {EmptyText, CertText(FullCert(0, MaxTime))}

(***************************************************************************)
(* The text of a xades:SigningTime element.  dateutil's parser accepts a   *)
(* date text, with or without a UTC offset, and raises ParserError on      *)
(* anything else.                                                          *)
(***************************************************************************)
DateText(w, a, o) == [kind |-> "date", wall |-> w, aware |-> a, off |-> o]
EmptySigningText == [kind |-> "empty"]
GarbageSigningText == [kind |-> "garbage"]
NO_ESPECIFICADA == [kind |-> "No especificada"]

ParsableSigningTexts ==
    {DateText(w, FALSE, 0) : w \in Times}
        \cup {DateText(w, TRUE, o) : w \in Times, o \in Offsets}

SigningTexts ==
    ParsableSigningTexts \cup {EmptySigningText, GarbageSigningText}

\* date_parser.parse(text)
date_parser_parse(text) ==
    IF text.kind = "date"
    THEN Ret(IF text.aware THEN Aware(text.wall, text.off)
             ELSE Naive(text.wall))
    ELSE Raise("ParserError")

\* ---- Python values: optional nodes, dict entries and str ----
ABSENT == [kind |-> "absent"]            \* the key is not in the dict
Str(s) == [kind |-> "str", s |-> s]      \* a str, as a sequence of characters
Word(w) == [kind |-> "word", w |-> w]    \* a str taken as one token

RECURSIVE lstrip(_)
lstrip(s) == IF s # <<>> /\ Head(s) = " " THEN lstrip(Tail(s)) ELSE s

RECURSIVE rstrip(_)
rstrip(s) ==
    IF s # <<>> /\ s[Len(s)] = " " THEN rstrip(SubSeq(s, 1, Len(s) - 1)) ELSE s

\* str.strip()
strip(s) == rstrip(lstrip(s))

DIGITS == {"0", "1", "2", "3", "4", "5", "6", "7", "8", "9"}

\* str.isdigit()
isdigit(s) == s # <<>> /\ \A i \in 1..Len(s) : s[i] \in DIGITS

(***************************************************************************)
(* The parsed document, as far as the validator reads it: the              *)
(* ds:X509Certificate elements and the xades:SigningTime elements, in      *)
(* document order; and as far as the extractor reads it: the parties and  *)
(* the first Invoice element.  A text node is the list of the texts of    *)
(* the elements that match, a structural node is ABSENT or a record.      *)
(***************************************************************************)
Root(cs, st) ==
    [X509Certificate |-> cs, SigningTime |-> st,
     SellerParty |-> ABSENT, BuyerParty |-> ABSENT, ThirdParty |-> ABSENT,
     Invoice |-> ABSENT]

\* Element.findtext(path, default): the text of the first match, "" when that
\* element has no text, the default when nothing matches
findtext(elems, default) == IF elems = <<>> THEN default ELSE Head(elems)

CertElementLists ==
    {<<>>} \cup {<<c>> : c \in CertTexts}
           \cup {<<c, d>> : c \in ChainTexts, d \in ChainTexts}

SigningElementLists == {<<>>} \cup {<<t>> : t \in SigningTexts}

SignedRoots == {Root(cs, st) : cs \in CertElementLists, st \in SigningElementLists}

(***************************************************************************)
(* 4.3 Signature/Certificate Validator: core/xsig_pdf.py                   *)
(***************************************************************************)
ESTADO_NO_CERT == <<"No", "se", "encontró", "certificado">>
ESTADO_ERROR(detail) == <<"Error", "al", "extraer", "firma:", detail>>
ESTADO_FIRMA == <<"Firma", "encontrada">>

AUN_NO_VALIDO == "Certificado aún no válido (vigencia futura)"
CADUCADO == "Certificado caducado"
ACTUALMENTE_VALIDO == "Certificado actualmente válido"

VALIDO_EN_FIRMA == <<"Certificado válido en la fecha de la firma">>
NO_VALIDO_EN_FIRMA == <<"Certificado NO era válido en la fecha de la firma">>
NO_SE_PUDO_VALIDAR(e) == <<"No se pudo validar la fecha de firma:", e>>

\* base64.b64decode(cert_base64)
b64decode(text) ==
    IF text.kind = "not_base64" THEN Raise("binascii.Error") ELSE Ret(text)

\* x509.load_der_x509_certificate(cert_der)
load_der_x509_certificate(der) ==
    IF der.kind = "cert" THEN Ret(der.cert) ELSE Raise("ValueError")

\* str.upper() on the hash algorithm names certificates carry
upper(name) ==
    CASE name = "sha256" -> "SHA256"
      [] name = "sha1" -> "SHA1"
      [] OTHER -> name

\* variant: the lookup's own failure is not caught, no default is used
attr_or_uncaught(value, default) == value

\* name.get_attributes_for_oid(oid)[0].value inside try/except: the default
\* when the name has no such attribute
attr_or(value, default) == IF value = MISSING THEN default ELSE value

\* lines 83-102: the validity window as aware UTC datetimes
valid_window(cert, has_utc) ==
    LET nb == IF has_utc THEN Aware(cert.not_before, 0) ELSE Naive(cert.not_before)
        na == IF has_utc THEN Aware(cert.not_after, 0) ELSE Naive(cert.not_after)
        d1 == IF has_utc THEN nb
              ELSE IF ~nb.aware THEN replace_tzinfo_utc(nb) ELSE astimezone_utc(nb)
        h1 == IF has_utc THEN na
              ELSE IF ~na.aware THEN replace_tzinfo_utc(na) ELSE astimezone_utc(na)
    IN  [desde |-> IF ~d1.aware THEN replace_tzinfo_utc(d1) ELSE d1,
         hasta |-> IF ~h1.aware THEN replace_tzinfo_utc(h1) ELSE h1]

\* variant: the bounds of the window are excluded
estado_actual_exclusive(t, valido_desde, valido_hasta) ==
    IF dt_le(t, valido_desde) THEN AUN_NO_VALIDO
    ELSE IF dt_le(valido_hasta, t) THEN CADUCADO
    ELSE ACTUALMENTE_VALIDO

\* lines 104-111: the certificate's status on the clock
estado_actual(t, valido_desde, valido_hasta) ==
    IF dt_lt(t, valido_desde) THEN AUN_NO_VALIDO
    ELSE IF dt_lt(valido_hasta, t) THEN CADUCADO
    ELSE ACTUALMENTE_VALIDO

\* variant: an offset-aware signing time has UTC attached instead of being
\* converted
validez_en_firma_replace(signing_time_str, valido_desde, valido_hasta) ==
    LET p == date_parser_parse(signing_time_str)
    IN  IF p.raised THEN Ret(NO_SE_PUDO_VALIDAR(p.exc))
        ELSE LET sd == replace_tzinfo_utc(p.val)
             IN  IF dt_le(valido_desde, sd) /\ dt_le(sd, valido_hasta)
                 THEN Ret(VALIDO_EN_FIRMA)
                 ELSE Ret(NO_VALIDO_EN_FIRMA)

\* variant: the parse is not guarded, its error propagates
validez_en_firma_unguarded(signing_time_str, valido_desde, valido_hasta) ==
    LET p == date_parser_parse(signing_time_str)
    IN  IF p.raised THEN Raise(p.exc)
        ELSE LET sd == IF ~p.val.aware THEN replace_tzinfo_utc(p.val)
                       ELSE astimezone_utc(p.val)
             IN  IF dt_le(valido_desde, sd) /\ dt_le(sd, valido_hasta)
                 THEN Ret(VALIDO_EN_FIRMA)
                 ELSE Ret(NO_VALIDO_EN_FIRMA)

\* lines 113-126: the certificate's status at the claimed signing time
validez_en_firma(signing_time_str, valido_desde, valido_hasta) ==
    LET p == date_parser_parse(signing_time_str)
    IN  IF p.raised THEN Ret(NO_SE_PUDO_VALIDAR(p.exc))
        ELSE LET sd == IF ~p.val.aware THEN replace_tzinfo_utc(p.val)
                       ELSE astimezone_utc(p.val)
             IN  IF ~Comparable(valido_desde, sd) \/ ~Comparable(sd, valido_hasta)
                 THEN Ret(NO_SE_PUDO_VALIDAR("TypeError"))
                 ELSE IF dt_le(valido_desde, sd) /\ dt_le(sd, valido_hasta)
                 THEN Ret(VALIDO_EN_FIRMA)
                 ELSE Ret(NO_VALIDO_EN_FIRMA)

\* lines 45-50: the decoding calls made on the way to the certificate
signature_decoding_calls(root) ==
    LET cert_base64 == findtext(root.X509Certificate, EmptyText)
    IN  IF cert_base64.kind = "empty" THEN {}
        ELSE IF b64decode(cert_base64).raised THEN {"b64decode"}
        ELSE {"b64decode", "load_der_x509_certificate"}

\* lines 40-139: the body of the validator's try block
signature_try_body(root, t, has_utc) ==
    LET cert_base64 == findtext(root.X509Certificate, EmptyText)
    IN  IF cert_base64.kind = "empty" THEN Ret([estado |-> ESTADO_NO_CERT])
        ELSE
        LET cert_der == b64decode(cert_base64)
        IN  IF cert_der.raised THEN cert_der
            ELSE
            LET loaded == load_der_x509_certificate(cert_der.val)
            IN  IF loaded.raised THEN loaded
                ELSE
                LET cert == loaded.val
                IN  IF ~cert.subject_ok THEN Raise("ValueError")
                    ELSE
                    LET cn == attr_or(cert.cn, "N/A")
                        nif == attr_or(cert.serial, "N/A")
                        cert_issuer == attr_or(cert.issuer_cn, "No disponible")
                        algorithm == IF cert.hash_alg = MISSING THEN "N/A"
                                     ELSE upper(cert.hash_alg)
                        signing_time_str ==
                            findtext(root.SigningTime, NO_ESPECIFICADA)
                        w == valid_window(cert, has_utc)
                        actual == estado_actual(Aware(t, 0), w.desde, w.hasta)
                        enfirma ==
                            validez_en_firma(signing_time_str, w.desde, w.hasta)
                    IN  IF enfirma.raised THEN enfirma
                        ELSE Ret([estado |-> ESTADO_FIRMA,
                                  firmante |-> cn,
                                  nif |-> nif,
                                  algoritmo |-> algorithm,
                                  fecha_firma |-> signing_time_str,
                                  valido_desde |-> strftime_ymd(w.desde),
                                  valido_hasta |-> strftime_ymd(w.hasta),
                                  estado_certificado |-> actual,
                                  validez_en_firma |-> enfirma.val,
                                  autoridad_certificadora |-> cert_issuer])

\* variant: no handler around the body, whatever it raises escapes
extract_signature_info_no_handler(root, t, has_utc) ==
    signature_try_body(root, t, has_utc)

\* variant: an element without text is handed to the decoder like any other
extract_signature_info_decode_empty(root, t, has_utc) ==
    LET r == signature_try_body(root, t, has_utc)
    IN  IF root.X509Certificate # <<>> /\ Head(root.X509Certificate).kind = "empty"
        THEN Ret([estado |-> ESTADO_ERROR("ValueError")])
        ELSE IF r.raised THEN Ret([estado |-> ESTADO_ERROR(r.exc)])
        ELSE r

\* lines 37-141: try: <body> except Exception as e: return the error dict
_extract_signature_info_from_xml(root, t, has_utc) ==
    LET r == signature_try_body(root, t, has_utc)
    IN  IF r.raised THEN Ret([estado |-> ESTADO_ERROR(r.exc)]) ELSE r

\* variant: the certificate element is detached from the tree once read
after_find_detached(root) == [root EXCEPT !.X509Certificate = <<>>]

\* the tree after find, findall and findtext have searched it: these are the
\* only calls either function makes on the tree, and they do not write
after_find(root) == root

ExtractSignatureInfo ==
    /\ sig_pc = "call"
    /\ LET r == _extract_signature_info_from_xml(xml_root, now, crypto_has_utc)
       IN  /\ sig_pc' = IF r.raised THEN "raised" ELSE "ret"
           /\ firma' = IF r.raised THEN firma ELSE r.val
    /\ sig_calls' = signature_decoding_calls(xml_root)
    /\ xml_root' = after_find(xml_root)
    /\ UNCHANGED <<crypto_has_utc, now>>

(***************************************************************************)
(* XSIG/XML -> PDF pipeline: POST /api/xml2pdf (api/main.py),              *)
(* generar_pdf_desde_xsig (core/service.py), render_pdf_from_xsig,         *)
(* _extract_invoice_data_from_xml and _generate_pdf_from_invoice           *)
(* (core/xsig_pdf.py).                                                     *)
(***************************************************************************)
NONE == [kind |-> "None"]

\* ---- the uploaded file ----
\* an XML declaration and a root element; the element stands for the whole
\* invoice tree, whose content is et_doc
XML_DECL == XML_MARKER \o <<"?", ">">>
ROOT_ELEMENT == <<"<", "a", "/", ">">>

UploadPrefixes == {<<>>, <<"a">>}
UploadBodies ==
    {<<>>, XML_DECL \o ROOT_ELEMENT, ROOT_ELEMENT, XML_DECL \o <<"<", "a">>,
     XML_DECL}
UploadSuffixes == {<<>>, <<"a">>, <<">">>}

Uploads ==
    {p \o b \o s : p \in UploadPrefixes, b \in UploadBodies, s \in UploadSuffixes}

\* the signed documents an upload can carry: no certificate, undecodable
\* certificate, certificate whose subject cannot be read, certificate with
\* and without a signing time, with an unparsable signing time
UploadDocs ==
    {Root(<<>>, <<>>),
     Root(<<NotBase64Text>>, <<>>),
     Root(<<NotDerText>>, <<DateText(1, FALSE, 0)>>),
     Root(<<CertText(FullCert(1, 2))>>, <<DateText(1, FALSE, 0)>>),
     Root(<<CertText(FullCert(1, 2))>>, <<GarbageSigningText>>),
     Root(<<CertText(FullCert(1, 2))>>, <<>>)}

\* line 883: ET.fromstring accepts a document with or without declaration
\* and nothing before or after it
ET_fromstring(b, doc) ==
    IF b \in {XML_DECL \o ROOT_ELEMENT, ROOT_ELEMENT}
    THEN Ret(doc)
    ELSE Raise("ParseError")

\* ---- the form fields ----
FormText(k) == [kind |-> k]
FechaRegistroValues == {NONE, FormText(""), FormText("iso"), FormText("bad")}
FechaDateValues == {NONE, FormText("%Y-%m-%d"), FormText("bad")}
HoraTimeValues == {NONE, FormText("%H:%M"), FormText("%H:%M:%S"), FormText("bad")}

Forms ==
    [fecha_registro : FechaRegistroValues,
     fecha_registro_date : FechaDateValues,
     hora_registro_time : HoraTimeValues]

\* Python truth value of an Optional[str]
truthy(s) == s # NONE /\ s # FormText("")

\* main.py line 493: datetime.fromisoformat
datetime_fromisoformat(s) ==
    IF s.kind = "iso" THEN Ret("datetime") ELSE Raise("ValueError")

\* service.py lines 151-159: datetime.strptime with the given format
datetime_strptime(s, fmt) ==
    IF s.kind = fmt THEN Ret(fmt) ELSE Raise("ValueError")

\* service.py lines 149-168: the registration datetime, or the ValueError
\* strptime raises
fecha_registro_normalizada(dt_obj, fecha_registro_date, hora_registro_time) ==
    IF dt_obj = NONE
    THEN LET d == IF truthy(fecha_registro_date)
                  THEN datetime_strptime(fecha_registro_date, "%Y-%m-%d")
                  ELSE Ret("today")
             h == IF truthy(hora_registro_time)
                  THEN IF hora_registro_time.kind = "%H:%M"
                       THEN datetime_strptime(hora_registro_time, "%H:%M")
                       ELSE datetime_strptime(hora_registro_time, "%H:%M:%S")
                  ELSE Ret("now")
         IN  IF d.raised THEN d
             ELSE IF h.raised THEN h
             ELSE Ret([date |-> d.val, time |-> h.val])
    ELSE Ret([date |-> dt_obj, time |-> dt_obj])

\* ---- exceptions and responses ----
HTTPException(status_code, detail) ==
    [type |-> "HTTPException", status_code |-> status_code, detail |-> detail]
ValueError(msg) == [type |-> "ValueError", msg |-> msg]
Exception(msg) == [type |-> "Exception", msg |-> msg]
NoException == [type |-> "None"]

ARCHIVO_VACIO == <<"Archivo vacío o ilegible.">>
FECHA_ISO == <<"fecha_registro debe estar en ISO 8601 (YYYY-MM-DDTHH:MM:SS)">>
ARCHIVO_VACIO_RENDER == <<"Archivo vacío o no legible.">>
XML_NO_VALIDO(e) == <<"El archivo no parece un XSIG/XML válido:", e>>
ERROR_GENERANDO(msg) == <<"Error generando PDF desde XML:">> \o msg

NoResponse == [status_code |-> 0]
PdfResponse(content) == [status_code |-> 200, content |-> content]
ErrorResponse(status_code, detail) ==
    [status_code |-> status_code, detail |-> detail]

\* The server log: the records that the request being served has written.
\* logger.exception writes the message at ERROR level together with the
\* exception being handled (its traceback); logger.warning writes the
\* message alone.
XML2PDF_INTERNAL == <<"/api/xml2pdf internal error:">>
INFORME_INTERNAL == <<"/api/informe internal error:">>
INFORME_BAD_REQUEST == <<"/api/informe bad request:">>

logger_exception(prefix, e) ==
    [level |-> "ERROR", message |-> prefix \o e.msg, exc_info |-> e]

logger_warning(prefix, e) ==
    [level |-> "WARNING", message |-> prefix \o e.msg, exc_info |-> NONE]

\* ---- extractor and renderer ----
NoInvoice == [Firma |-> [estado |-> <<>>]]
NoPdf == [elements |-> <<>>]

\* the sentinel of a missing node
NA == <<"N", "/", "A">>

\* (s or default) on str
or_default(s, default) == IF s = <<>> THEN default ELSE s

RECURSIVE join(_, _)
\* sep.join(parts)
join(parts, sep) ==
    IF parts = <<>> THEN <<>>
    ELSE IF Len(parts) = 1 THEN parts[1]
    ELSE parts[1] \o sep \o join(Tail(parts), sep)

\* sep.join([p for p in parts if p])
join_nonempty(parts, sep) == join(SelectSeq(parts, LAMBDA p : p # <<>>), sep)

\* the elements of the tree
AddressInSpain(address, postcode, town, province, country) ==
    [Address |-> address, PostCode |-> postcode, Town |-> town,
     Province |-> province, CountryCode |-> country]

OverseasAddress(address, postcodeandtown, province, country) ==
    [Address |-> address, PostCodeAndTown |-> postcodeandtown,
     Province |-> province, CountryCode |-> country]

LegalEntity(corporatename, addr_es, addr_ov) ==
    [CorporateName |-> corporatename, AddressInSpain |-> addr_es,
     OverseasAddress |-> addr_ov]

Individual(name, firstsurname, secondsurname, addr_es, addr_ov) ==
    [Name |-> name, FirstSurname |-> firstsurname,
     SecondSurname |-> secondsurname, AddressInSpain |-> addr_es,
     OverseasAddress |-> addr_ov]

AdministrativeCentre(centrecode, name) ==
    [CentreCode |-> centrecode, Name |-> name]

Party(taxid, legal, individual, centres) ==
    [TaxIdentificationNumber |-> taxid, LegalEntity |-> legal,
     Individual |-> individual, AdministrativeCentres |-> centres]

InvoiceLine(description, quantity, unit_price, total_cost, info) ==
    [ItemDescription |-> description, Quantity |-> quantity,
     UnitPriceWithoutTax |-> unit_price, TotalCost |-> total_cost,
     AdditionalLineItemInformation |-> info,
     Charges |-> <<>>, Discounts |-> <<>>]

\* the Charge and Discount nodes of a line, the InvoicingPeriod node of
\* InvoiceIssueData and the first Installment node of PaymentDetails
Charge(reason, amount) == [ChargeReason |-> reason, ChargeAmount |-> amount]
Discount(reason, amount) ==
    [DiscountReason |-> reason, DiscountAmount |-> amount]
InvoicingPeriod(start, end) == [StartDate |-> start, EndDate |-> end]
Installment(due, amount) ==
    [InstallmentDueDate |-> due, InstallmentAmount |-> amount]

Invoice(number, series, doctype, currency, issuedate, class, lines) ==
    [InvoiceNumber |-> number, InvoiceSeriesCode |-> series,
     InvoiceDocumentType |-> doctype, InvoiceCurrencyCode |-> currency,
     IssueDate |-> issuedate, InvoiceClass |-> class, Items |-> lines,
     InvoicingPeriod |-> ABSENT, Installment |-> ABSENT]

\* xsig_pdf.py lines 144-176
ADDRESS_DEFAULT ==
    ("Dirección" :> NA) @@ ("Poblacion" :> NA) @@ ("Cod.Postal" :> NA)
        @@ ("Provincia" :> NA)

_address_components(entity_root) ==
    IF entity_root.AddressInSpain # ABSENT
    THEN LET addr_es == entity_root.AddressInSpain
             address == findtext(addr_es.Address, <<>>)
             postcode == findtext(addr_es.PostCode, <<>>)
             town == findtext(addr_es.Town, <<>>)
             province == findtext(addr_es.Province, <<>>)
             country == findtext(addr_es.CountryCode, <<>>)
             address_fmt ==
                 join_nonempty(<<address, strip(postcode \o <<" ">> \o town),
                                 province, country>>, <<",", " ">>)
         IN  ("Dirección" :> or_default(address_fmt, NA))
                 @@ ("Poblacion" :> or_default(town, NA))
                 @@ ("Cod.Postal" :> or_default(postcode, NA))
                 @@ ("Provincia" :> or_default(province, NA))
    ELSE IF entity_root.OverseasAddress # ABSENT
    THEN LET addr_ov == entity_root.OverseasAddress
             line == findtext(addr_ov.Address, <<>>)
             post == findtext(addr_ov.PostCodeAndTown, <<>>)
             prov == findtext(addr_ov.Province, <<>>)
             country == findtext(addr_ov.CountryCode, <<>>)
         IN  ("Dirección" :>
                 or_default(join_nonempty(<<line, post, prov, country>>,
                                          <<",", " ">>), NA))
                 @@ ADDRESS_DEFAULT
    ELSE ADDRESS_DEFAULT

\* xsig_pdf.py lines 190-198: the name of a party
party_name_individual_first(legal, individual) ==
    IF individual # ABSENT
    THEN or_default(strip(strip(findtext(individual.Name, <<>>)) \o <<" ">>
                \o strip(findtext(individual.FirstSurname, <<>>)) \o <<" ">>
                \o strip(findtext(individual.SecondSurname, <<>>))), NA)
    ELSE IF legal # ABSENT
    THEN or_default(strip(findtext(legal.CorporateName, <<>>)), NA)
    ELSE NA

party_name(legal, individual) ==
    IF legal # ABSENT
    THEN or_default(strip(findtext(legal.CorporateName, <<>>)), NA)
    ELSE IF individual # ABSENT
    THEN or_default(strip(strip(findtext(individual.Name, <<>>)) \o <<" ">>
                \o strip(findtext(individual.FirstSurname, <<>>)) \o <<" ">>
                \o strip(findtext(individual.SecondSurname, <<>>))), NA)
    ELSE NA

\* xsig_pdf.py lines 179-215: {} when the document has no such party
_extract_party_full(parent, party_tag) ==
    LET party == parent[party_tag]
    IN  IF party = ABSENT THEN << >>
        ELSE LET tax_id == or_default(
                     findtext(party.TaxIdentificationNumber, NA), NA)
                 legal == party.LegalEntity
                 individual == party.Individual
                 addr_parts ==
                     IF legal # ABSENT THEN _address_components(legal)
                     ELSE IF individual # ABSENT
                     THEN _address_components(individual)
                     ELSE ADDRESS_DEFAULT
             IN  ("Nombre" :> party_name(legal, individual))
                     @@ ("NIF" :> tax_id) @@ addr_parts

\* xsig_pdf.py lines 220-225: the records used when a party is missing
EMITTER_DEFAULT == ("Nombre" :> NA) @@ ("NIF" :> NA) @@ ADDRESS_DEFAULT
RECEPTOR_DEFAULT == ("Nombre" :> NA) @@ ("NIF" :> NA) @@ ("Dirección" :> NA)

\* (d or default) on dict
dict_or(d, default) == IF DOMAIN d = {} THEN default ELSE d

\* xsig_pdf.py lines 227-234: "code - name" of each centre, in document order
destinos_reversed(buyer_party) ==
    IF buyer_party = ABSENT THEN <<>>
    ELSE LET n == Len(buyer_party.AdministrativeCentres)
         IN  [i \in 1..n |->
                LET admin == buyer_party.AdministrativeCentres[n + 1 - i]
                IN  findtext(admin.CentreCode, NA) \o <<" ", "-", " ">>
                        \o findtext(admin.Name, NA)]

destinos_of(buyer_party) ==
    IF buyer_party = ABSENT THEN <<>>
    ELSE [i \in 1..Len(buyer_party.AdministrativeCentres) |->
            LET admin == buyer_party.AdministrativeCentres[i]
            IN  findtext(admin.CentreCode, NA) \o <<" ", "-", " ">>
                    \o findtext(admin.Name, NA)]

\* xsig_pdf.py lines 235-238
destino(destinos, i) == IF Len(destinos) >= i THEN destinos[i] ELSE NA

\* ---- dates: datetime.strptime(raw, "%Y-%m-%d").strftime("%d/%m/%Y") ----
RECURSIVE to_int(_)
to_int(s) ==
    IF s = <<>> THEN 0
    ELSE 10 * to_int(SubSeq(s, 1, Len(s) - 1))
            + (CHOOSE n \in 0..9 : ToString(n) = s[Len(s)])

\* the position of the k-th "-" of s, 0 when there is none
dash(s, k) ==
    LET ps == {i \in 1..Len(s) : s[i] = "-"}
    IN  IF Cardinality(ps) < k THEN 0
        ELSE CHOOSE i \in ps : Cardinality({j \in ps : j < i}) = k - 1

is_leap(y) == (y % 4 = 0 /\ y % 100 # 0) \/ y % 400 = 0

days_in_month(y, mo) ==
    IF mo = 2 THEN (IF is_leap(y) THEN 29 ELSE 28)
    ELSE IF mo \in {4, 6, 9, 11} THEN 30 ELSE 31

pad2(n) == IF n < 10 THEN <<"0">> \o <<ToString(n)>>
           ELSE <<ToString(n \div 10), ToString(n % 10)>>

\* strptime takes four digits for %Y and one or two for %m and %d
fmt_date(raw) ==
    LET d1 == dash(raw, 1)
        d2 == dash(raw, 2)
        ys == SubSeq(raw, 1, d1 - 1)
        ms == SubSeq(raw, d1 + 1, d2 - 1)
        dd == SubSeq(raw, d2 + 1, Len(raw))
        ds == IF Len(dd) = 2 /\ dd[1] = " " /\ dd[2] # "0"
              THEN SubSeq(dd, 2, 2) ELSE dd
        ok == /\ d1 = 5 /\ d2 > 0 /\ dash(raw, 3) = 0
              /\ isdigit(ys) /\ isdigit(ms) /\ isdigit(ds)
              /\ Len(ms) <= 2 /\ Len(ds) <= 2
              /\ to_int(ys) >= 1
              /\ to_int(ms) \in 1..12
              /\ to_int(ds) \in 1..days_in_month(to_int(ys), to_int(ms))
    IN  IF ok
        THEN Ret(pad2(to_int(ds)) \o <<"/">> \o pad2(to_int(ms)) \o <<"/">>
                    \o ys)
        ELSE Raise("ValueError")

\* xsig_pdf.py lines 257-260
issue_date_of(raw_date) ==
    LET r == fmt_date(raw_date) IN IF r.raised THEN raw_date ELSE r.val

\* lines 262-276: the nested _fmt_date(d) and the period dict
_fmt_date(d) ==
    LET r == fmt_date(d) IN IF r.raised THEN or_default(d, NA) ELSE r.val

invoicing_period_of(invoice_element) ==
    IF invoice_element.InvoicingPeriod = ABSENT THEN << >>
    ELSE LET invp == invoice_element.InvoicingPeriod
             start == findtext(invp.StartDate, <<>>)
             end == findtext(invp.EndDate, <<>>)
         IN  [Inicio |-> _fmt_date(start), Fin |-> _fmt_date(end)]

\* lines 333-359: the first installment of PaymentDetails
due_date_of(due_date_raw) ==
    IF due_date_raw = <<>> THEN <<>>
    ELSE LET r == fmt_date(due_date_raw)
         IN  IF r.raised THEN due_date_raw ELSE r.val

payment_details_of(invoice_element) ==
    IF invoice_element.Installment = ABSENT THEN << >>
    ELSE LET payment == invoice_element.Installment
         IN  [due_date |->
                due_date_of(strip(findtext(payment.InstallmentDueDate, <<>>))),
              amount |-> strip(findtext(payment.InstallmentAmount, <<>>))]

\* lines 387-400: the charges and the discounts of a line
line_charges_of(line) ==
    [i \in 1..Len(line.Charges) |->
        [reason |->
            strip(or_default(findtext(line.Charges[i].ChargeReason, <<>>),
                             <<"C", "a", "r", "g", "o">>)),
         amount |->
            strip(or_default(findtext(line.Charges[i].ChargeAmount, <<"0">>),
                             <<"0">>))]]

line_discounts_of(line) ==
    [i \in 1..Len(line.Discounts) |->
        [reason |->
            strip(or_default(findtext(line.Discounts[i].DiscountReason, <<>>),
                             <<"D", "c", "t", "o", ".">>)),
         amount |->
            strip(or_default(findtext(line.Discounts[i].DiscountAmount, <<"0">>),
                             <<"0">>))]]

\* xsig_pdf.py lines 251-255
invoice_class_map ==
    (<<"O", "O">> :> "Original") @@ (<<"O", "R">> :> "Original Rectificativa")
        @@ (<<"O", "C">> :> "Original Recapitulativa")
        @@ (<<"C", "O">> :> "Duplicado Original")
        @@ (<<"C", "R">> :> "Duplicado Rectificativa")
        @@ (<<"C", "C">> :> "Duplicado Recapitulativa")

\* variant: an unknown code is passed through
invoice_class_desc_raw(invoice_class) ==
    IF invoice_class \in DOMAIN invoice_class_map
    THEN <<invoice_class_map[invoice_class]>>
    ELSE invoice_class

\* invoice_class_map.get(invoice_class, "N/A")
invoice_class_desc_of(invoice_class) ==
    IF invoice_class \in DOMAIN invoice_class_map
    THEN <<invoice_class_map[invoice_class]>>
    ELSE NA

\* variant: a separator between series and number
invoice_number_dashed(invoice_series, invoice_number) ==
    invoice_series \o <<"-">> \o invoice_number

\* xsig_pdf.py line 261: f"{invoice_series}{invoice_number}"
invoice_number_of(invoice_series, invoice_number) ==
    invoice_series \o invoice_number

\* xsig_pdf.py lines 371-413: one record per InvoiceLine
item_of(line) ==
    ("Descripción" :> findtext(line.ItemDescription, NA))
        @@ ("Cantidad" :> findtext(line.Quantity, NA))
        @@ ("Precio Unitario" :> findtext(line.UnitPriceWithoutTax, NA))
        @@ ("Importe" :> findtext(line.TotalCost, NA))
        @@ ("Observaciones" :>
                strip(findtext(line.AdditionalLineItemInformation, <<>>)))
        @@ ("Cargos" :> line_charges_of(line))
        @@ ("Descuentos" :> line_discounts_of(line))

\* xsig_pdf.py lines 218-433: the invoice record; the signature entry is
\* whatever the validator returns (line 426)
_extract_invoice_data_from_xml(root, t, has_utc) ==
    LET f == _extract_signature_info_from_xml(root, t, has_utc)
        emitter == dict_or(_extract_party_full(root, "SellerParty"),
                           EMITTER_DEFAULT)
        destinos == destinos_of(root.BuyerParty)
        receptor ==
            dict_or(_extract_party_full(root, "BuyerParty"), RECEPTOR_DEFAULT)
                @@ ("OfiCont" :> destino(destinos, 1))
                @@ ("OrgGest" :> destino(destinos, 2))
                @@ ("Und.Tram" :> destino(destinos, 3))
                @@ ("UndTram" :> destino(destinos, 3))
        tercero == _extract_party_full(root, "ThirdParty")
        invoice_element == root.Invoice
        header ==
            IF invoice_element # ABSENT
            THEN ("Número de Factura" :>
                     invoice_number_of(
                         findtext(invoice_element.InvoiceSeriesCode, <<>>),
                         findtext(invoice_element.InvoiceNumber, NA)))
                 @@ ("Fecha" :>
                        issue_date_of(findtext(invoice_element.IssueDate, NA)))
                 @@ ("Tipo Dcomento" :>
                        findtext(invoice_element.InvoiceDocumentType, NA))
                 @@ ("Moneda" :>
                        findtext(invoice_element.InvoiceCurrencyCode, NA))
                 @@ ("Clase Factura" :>
                        invoice_class_desc_of(
                            findtext(invoice_element.InvoiceClass, NA)))
            ELSE ("Número de Factura" :> NA) @@ ("Fecha" :> NA)
                 @@ ("Tipo Dcomento" :> NA) @@ ("Moneda" :> NA)
                 @@ ("Clase Factura" :> NA)
        invoicing_period ==
            IF invoice_element # ABSENT
            THEN invoicing_period_of(invoice_element) ELSE << >>
        payment_details ==
            IF invoice_element # ABSENT
            THEN payment_details_of(invoice_element) ELSE << >>
        items ==
            IF invoice_element # ABSENT
            THEN [i \in 1..Len(invoice_element.Items) |->
                    item_of(invoice_element.Items[i])]
            ELSE <<>>
    IN  IF f.raised THEN f
        ELSE Ret([Firma |-> f.val] @@ header
                   @@ ("Emisor" :> emitter) @@ ("Receptor" :> receptor)
                   @@ ("PeriodoFactura" :> invoicing_period)
                   @@ ("Tercero" :> tercero) @@ ("Conceptos" :> items)
                   @@ ("PaymentDetails" :> payment_details))

\* ---- documents given to the extractor ----
\* a text node: no element, an element without text, or an element with text
TextNodes == {<<>>, <<<<>>>>, <<<<"A">>>>, <<<<" ">>>>, <<<<" ", "B", " ">>>>}
NameNodes == {<<>>, <<<<"A">>>>, <<<<" ", "B", " ">>>>}

Addresses ==
    {<<ABSENT, ABSENT>>,
     <<AddressInSpain(<<<<"c">>>>, <<<<"4">>>>, <<<<"t">>>>, <<<<"p">>>>,
                      <<<<"E">>>>), ABSENT>>,
     <<AddressInSpain(<<>>, <<>>, <<<<>>>>, <<>>, <<>>), ABSENT>>,
     <<AddressInSpain(<<>>, <<<<"4">>>>, <<>>, <<>>, <<>>),
       OverseasAddress(<<<<"o">>>>, <<>>, <<>>, <<>>)>>,
     <<ABSENT, OverseasAddress(<<<<"o">>>>, <<<<"q">>>>, <<>>, <<<<"F">>>>)>>,
     <<ABSENT, OverseasAddress(<<>>, <<>>, <<>>, <<>>)>>}

LegalEntities ==
    {LegalEntity(c, ABSENT, ABSENT) : c \in TextNodes}
        \cup {LegalEntity(<<<<"A">>>>, a[1], a[2]) : a \in Addresses}

Individuals ==
    {Individual(n, s1, s2, ABSENT, ABSENT) :
        n \in NameNodes, s1 \in NameNodes, s2 \in {<<>>, <<<<"C">>>>}}
        \cup {Individual(<<<<"A">>>>, <<>>, <<>>, a[1], a[2]) : a \in Addresses}

Parties ==
    {Party(<<<<"X">>>>, l, ABSENT, <<>>) : l \in LegalEntities}
        \cup {Party(<<<<"X">>>>, ABSENT, i, <<>>) : i \in Individuals}
        \cup {Party(t, l, i, <<>>) :
                t \in {<<>>, <<<<>>>>},
                l \in {ABSENT, LegalEntity(<<<<"A">>>>, ABSENT, ABSENT),
                       LegalEntity(<<<<" ">>>>, ABSENT, ABSENT)},
                i \in {ABSENT,
                       Individual(<<<<"D">>>>, <<>>, <<>>, ABSENT, ABSENT)}}

Centres ==
    {AdministrativeCentre(<<<<"1">>>>, <<<<"a">>>>),
     AdministrativeCentre(<<<<"2">>>>, <<<<"b">>>>),
     AdministrativeCentre(<<>>, <<<<>>>>)}

CentreLists ==
    {<<>>} \cup {<<c>> : c \in Centres}
           \cup {<<c, d>> : c \in Centres, d \in Centres}
           \cup {<<c, d, e>> : c \in Centres, d \in Centres, e \in Centres}
           \cup {<<c, d, e, f>> : c \in Centres, d \in Centres,
                                  e \in Centres, f \in Centres}

ClassNodes ==
    {<<>>, <<<<>>>>, <<<<"O", "O">>>>, <<<<"O", "R">>>>, <<<<"O", "C">>>>,
     <<<<"C", "O">>>>, <<<<"C", "R">>>>, <<<<"C", "C">>>>, <<<<"X", "X">>>>,
     <<<<"o", "o">>>>, <<<<"O", "O", " ">>>>}

DateNodes ==
    {<<>>, <<<<"2", "0", "2", "4", "-", "0", "2", "-", "2", "9">>>>,
     <<<<"2", "0", "2", "3", "-", "0", "2", "-", "2", "9">>>>,
     <<<<"2", "0", "2", "4", "-", "3", "-", "7">>>>,
     <<<<"0", "7", "/", "0", "3", "/", "2", "0", "2", "4">>>>}

Lines ==
    {InvoiceLine(<<<<"d">>>>, <<<<"1">>>>, <<<<"2">>>>, <<<<"2">>>>,
                 <<<<" ", "i">>>>),
     InvoiceLine(<<>>, <<>>, <<>>, <<>>, <<>>),
     InvoiceLine(<<<<>>>>, <<<<"1">>>>, <<>>, <<<<>>>>, <<<<>>>>)}

LineLists ==
    {<<>>} \cup {<<l>> : l \in Lines} \cup {<<l, k>> : l \in Lines, k \in Lines}

Invoices ==
    {Invoice(n, s, <<>>, <<>>, <<>>, c, <<>>) :
        n \in {<<>>, <<<<>>>>, <<<<"5">>>>},
        s \in {<<>>, <<<<>>>>, <<<<"A">>>>},
        c \in ClassNodes}
        \cup {Invoice(<<<<"5">>>>, <<>>, t, t, d, <<>>, ls) :
                t \in {<<>>, <<<<"E">>>>}, d \in DateNodes, ls \in LineLists}

InvoiceRoots ==
    {[Root(<<>>, <<>>) EXCEPT !.SellerParty = p] : p \in Parties}
        \cup {[Root(<<>>, <<>>) EXCEPT !.BuyerParty = p] : p \in Parties}
        \cup {[Root(<<>>, <<>>) EXCEPT !.ThirdParty = p] : p \in Parties}
        \cup {[Root(<<>>, <<>>) EXCEPT
                  !.BuyerParty = Party(<<>>, ABSENT, ABSENT, cs)] :
                cs \in CentreLists}
        \cup {[Root(<<>>, <<>>) EXCEPT !.Invoice = i] : i \in Invoices}
        \cup {Root(<<>>, <<>>)}

\* documents with invoice content for repeated extraction
TwiceInvoiceRoots ==
    {[Root(cs, <<>>) EXCEPT
         !.SellerParty = Party(<<<<"X">>>>,
                               LegalEntity(<<<<"A">>>>, ABSENT, ABSENT),
                               ABSENT, <<>>),
         !.Invoice = Invoice(<<<<"5">>>>, <<<<"A">>>>, <<>>, <<>>, d,
                             <<<<"O", "O">>>>, <<>>)] :
        cs \in {<<>>, <<CertText(FullCert(1, 2))>>}, d \in DateNodes}

\* Python: firma.get("estado", "").startswith("Firma")
startswith_Firma(f) ==
    /\ "estado" \in DOMAIN f
    /\ f.estado # <<>>
    /\ Head(f.estado) = "Firma"

FirmaFields ==
    {"firmante", "nif", "algoritmo", "fecha_firma", "valido_desde",
     "valido_hasta", "estado_certificado", "validez_en_firma",
     "autoridad_certificadora"}

\* lines 823-836: firma.get(k, "N/A") for the nine cells of the block
firma_block(f) ==
    [k \in FirmaFields |-> IF k \in DOMAIN f THEN f[k] ELSE "N/A"]

\* variant: the block is rendered for every non-empty signature dict
generate_pdf_any_firma(invoice, parametros) ==
    Ret([elements |-> <<"Resumen de Factura", "EMISOR/RECEPTOR", "Conceptos",
                        "Firma electrónica">>,
         parametros |-> parametros,
         firma |-> firma_block(invoice.Firma)])

\* xsig_pdf.py lines 453-857: the flowables handed to doc.build; the
\* signature block (lines 815-852) closes the document
_generate_pdf_from_invoice(invoice, parametros) ==
    LET f == invoice.Firma
    IN  IF startswith_Firma(f)
        THEN Ret([elements |-> <<"Resumen de Factura", "EMISOR/RECEPTOR",
                                 "Conceptos", "Firma electrónica">>,
                  parametros |-> parametros,
                  firma |-> firma_block(f)])
        ELSE Ret([elements |-> <<"Resumen de Factura", "EMISOR/RECEPTOR",
                                 "Conceptos">>,
                  parametros |-> parametros])

\* ---- the handler, step by step ----
\* main.py lines 486-499: read the upload, reject an empty one, parse the
\* optional ISO fecha_registro
ApiXmlAPdf ==
    /\ pc = "api_xml_a_pdf"
    /\ UNCHANGED <<infVars, raceVars, rateVars, logVars, pureVars>>
    /\ IF xsig_bytes = <<>>
       THEN /\ exc' = HTTPException(400, ARCHIVO_VACIO)
            /\ pc' = "api_except"
            /\ UNCHANGED fecha_registro
       ELSE IF truthy(form.fecha_registro)
       THEN LET r == datetime_fromisoformat(form.fecha_registro)
            IN  IF r.raised
                THEN /\ exc' = HTTPException(400, FECHA_ISO)
                     /\ pc' = "api_except"
                     /\ UNCHANGED fecha_registro
                ELSE /\ fecha_registro' = form.fecha_registro
                     /\ pc' = "generar_pdf_desde_xsig"
                     /\ UNCHANGED exc
       ELSE /\ fecha_registro' = NONE
            /\ pc' = "generar_pdf_desde_xsig"
            /\ UNCHANGED exc
    /\ UNCHANGED <<form, et_doc, invoice_data, calls, pdf, response>>
    /\ UNCHANGED <<unwrapVars, sigVars>>

\* service.py lines 149-170: normalise the registration date and time
GenerarPdfDesdeXsig ==
    /\ pc = "generar_pdf_desde_xsig"
    /\ UNCHANGED <<infVars, raceVars, rateVars, logVars, pureVars>>
    /\ LET r == fecha_registro_normalizada(fecha_registro,
                    form.fecha_registro_date, form.hora_registro_time)
       IN  IF r.raised
           THEN /\ exc' = ValueError(<<"time data does not match format">>)
                /\ pc' = "api_except"
                /\ UNCHANGED fecha_registro
           ELSE /\ fecha_registro' = r.val
                /\ pc' = "render_pdf_from_xsig"
                /\ UNCHANGED exc
    /\ UNCHANGED <<form, et_doc, invoice_data, calls, pdf, response>>
    /\ UNCHANGED <<unwrapVars, sigVars>>

\* xsig_pdf.py lines 877-885: read, unwrap, parse
RenderPdfFromXsig ==
    /\ pc = "render_pdf_from_xsig"
    /\ UNCHANGED <<infVars, raceVars, rateVars, logVars, pureVars>>
    /\ IF xsig_bytes = <<>>
       THEN /\ exc' = ValueError(ARCHIVO_VACIO_RENDER)
            /\ pc' = "api_except"
            /\ UNCHANGED <<xml_bytes, unwrap_pc, xml_root>>
       ELSE /\ xml_bytes' = _extract_xml_from_xsig_bytes(xsig_bytes)
            /\ unwrap_pc' = "ret"
            /\ LET r == ET_fromstring(xml_bytes', et_doc)
               IN  IF r.raised
                   THEN /\ exc' = ValueError(XML_NO_VALIDO(r.exc))
                        /\ pc' = "api_except"
                        /\ UNCHANGED xml_root
                   ELSE /\ xml_root' = r.val
                        /\ pc' = "extract"
                        /\ UNCHANGED exc
    /\ UNCHANGED <<xsig_bytes, crypto_has_utc, now, firma, sig_calls, sig_pc>>
    /\ UNCHANGED <<form, et_doc, fecha_registro, invoice_data, calls, pdf, response>>

\* xsig_pdf.py line 887: build the invoice record (the validator runs inside)
ExtractInvoiceData ==
    /\ pc = "extract"
    /\ UNCHANGED <<infVars, raceVars, rateVars, logVars, pureVars>>
    /\ calls' = calls \cup {"_extract_invoice_data_from_xml"}
    /\ sig_calls' = signature_decoding_calls(xml_root)
    /\ LET r == _extract_invoice_data_from_xml(xml_root, now, crypto_has_utc)
       IN  IF r.raised
           THEN /\ exc' = Exception(<<r.exc>>)
                /\ pc' = "api_except"
                /\ sig_pc' = "raised"
                /\ UNCHANGED <<invoice_data, firma>>
           ELSE /\ invoice_data' = r.val
                /\ firma' = r.val.Firma
                /\ sig_pc' = "ret"
                /\ pc' = "generate"
                /\ UNCHANGED exc
    /\ xml_root' = after_find(xml_root)
    /\ UNCHANGED <<crypto_has_utc, now>>
    /\ UNCHANGED <<form, et_doc, fecha_registro, pdf, response>>
    /\ UNCHANGED unwrapVars

\* the extractor called once more on the same parsed document, at the same or
\* a later time of the clock
ExtractInvoiceDataAgain ==
    /\ pc = "generate"
    /\ UNCHANGED <<infVars, raceVars, rateVars, logVars, pureVars>>
    /\ calls' = calls \cup {"_extract_invoice_data_from_xml (again)"}
    /\ \E later \in Times :
          /\ later >= now
          /\ now' = later
          /\ \E r \in {_extract_invoice_data_from_xml(xml_root, later,
                                                         crypto_has_utc)} :
                 IF r.raised
                 THEN /\ exc' = Exception(<<r.exc>>)
                      /\ pc' = "api_except"
                      /\ sig_pc' = "raised"
                      /\ UNCHANGED <<invoice_data, firma>>
                 ELSE /\ invoice_data' = r.val
                      /\ firma' = r.val.Firma
                      /\ UNCHANGED <<exc, pc, sig_pc>>
    /\ xml_root' = after_find(xml_root)
    /\ UNCHANGED <<crypto_has_utc, sig_calls>>
    /\ UNCHANGED <<form, et_doc, fecha_registro, pdf, response>>
    /\ UNCHANGED unwrapVars

\* xsig_pdf.py lines 889-898: the parameters and the document renderer
GeneratePdf ==
    /\ pc = "generate"
    /\ UNCHANGED <<infVars, raceVars, rateVars, logVars, pureVars>>
    /\ calls' = calls \cup {"_generate_pdf_from_invoice"}
    /\ LET params == [fecha_hora_registro |-> fecha_registro]
           r == _generate_pdf_from_invoice(invoice_data, params)
       IN  IF r.raised
           THEN /\ exc' = Exception(<<r.exc>>)
                /\ pc' = "api_except"
                /\ UNCHANGED pdf
           ELSE /\ pdf' = r.val
                /\ pc' = "api_return"
                /\ UNCHANGED exc
    /\ UNCHANGED <<form, et_doc, fecha_registro, invoice_data, response>>
    /\ UNCHANGED <<unwrapVars, sigVars>>

\* main.py lines 511-516: the PDF response
ApiReturn ==
    /\ pc = "api_return"
    /\ UNCHANGED <<infVars, raceVars, rateVars, logVars, pureVars>>
    /\ response' = PdfResponse(pdf)
    /\ pc' = "done"
    /\ UNCHANGED <<form, et_doc, fecha_registro, exc, invoice_data, calls, pdf>>
    /\ UNCHANGED <<unwrapVars, sigVars>>

\* main.py lines 517-521: an HTTPException passes, anything else becomes 500
ApiExcept ==
    /\ pc = "api_except"
    /\ UNCHANGED <<infVars, raceVars, rateVars, pureVars>>
    /\ response' = IF exc.type = "HTTPException"
                   THEN ErrorResponse(exc.status_code, exc.detail)
                   ELSE ErrorResponse(500, ERROR_GENERANDO(exc.msg))
    /\ logged' = IF exc.type = "HTTPException"
                 THEN logged
                 ELSE Append(logged, logger_exception(XML2PDF_INTERNAL, exc))
    /\ pc' = "done"
    /\ UNCHANGED <<form, et_doc, fecha_registro, exc, invoice_data, calls, pdf>>
    /\ UNCHANGED <<unwrapVars, sigVars>>

(***************************************************************************)
(* Conformity report: POST /api/informe (api/main.py),                     *)
(* generar_informe_conformidad_pdf_desde_payload (core/service.py) and     *)
(* the memoized area table loader (core/areas.py).                         *)
(***************************************************************************)
\* dict.get(key): None when the key is absent
dict_get(d, key) == IF d[key] = ABSENT THEN NONE ELSE d[key]

\* (v or ""): None and "" both give ""
or_empty(v) == IF v = NONE \/ v = ABSENT THEN <<>> ELSE v.s

\* str.zfill(2): zeros go after a leading sign
zfill2(s) ==
    IF Len(s) >= 2 THEN s
    ELSE IF s = <<>> THEN <<"0", "0">>
    ELSE IF s[1] \in {"+", "-"} THEN <<s[1], "0">>
    ELSE <<"0", s[1]>>

\* variant: every code is padded, numeric or not
_normalize_area_code_pad_all(area_code) ==
    IF area_code = NONE \/ area_code.s = <<>> THEN <<>>
    ELSE zfill2(strip(area_code.s))

\* service.py lines 20-30
_normalize_area_code(area_code) ==
    IF area_code = NONE \/ area_code.s = <<>> THEN <<>>
    ELSE LET ac == strip(area_code.s)
         IN  IF isdigit(ac) THEN zfill2(ac) ELSE ac

\* ---- the filesystem: area CSV files and logo files ----
CSV_DEFAULT == "areas.csv"
CSV_OTHER == "otras.csv"
CsvPaths == {CSV_DEFAULT, CSV_OTHER}

NO_FILE == [exists |-> FALSE]
CsvFile(rows) == [exists |-> TRUE, rows |-> rows]
\* rows of cells; a one-cell row and a row with an empty code are skipped
AreasRows ==
    <<  <<<<"1">>, <<"U", "n", "o", " ">>>>,
        <<<<"x">>>>,
        <<<<" ">>, <<"V">>>>,
        <<<<"A">>, <<"L", "e", "t", "r", "a">>>> >>
OtrasRows == << <<<<"0", "1">>, <<"O", "t", "r", "a">>>> >>

FileSystems ==
    {[p \in CsvPaths |-> IF p = CSV_DEFAULT THEN a ELSE CsvFile(OtrasRows)] :
        a \in {NO_FILE, CsvFile(AreasRows)}}

LogoFile(root, code, ext) == [root |-> root, code |-> code, ext |-> ext]
LogoSets ==
    { {},
      {LogoFile(".", <<"0", "1">>, "jpg"), LogoFile("images", <<"0", "1">>, "gif")} }

dict_put(d, k, v) == [x \in (DOMAIN d) \cup {k} |-> IF x = k THEN v ELSE d[x]]

\* areas.py lines 16-23: the rows folded into the dict, first row first
RECURSIVE read_rows(_, _)
read_rows(rows, d) ==
    IF rows = <<>> THEN d
    ELSE LET row == Head(rows)
         IN  IF Len(row) < 2 THEN read_rows(Tail(rows), d)
             ELSE LET area_raw == strip(row[1])
                      nombre == strip(row[2])
                  IN  IF area_raw # <<>>
                      THEN read_rows(Tail(rows), dict_put(d, zfill2(area_raw), nombre))
                      ELSE read_rows(Tail(rows), d)

\* areas.py lines 11-24: the body of cargar_diccionario_areas
load_areas(csv_path, fs) ==
    IF csv_path = "" \/ csv_path \notin DOMAIN fs \/ ~fs[csv_path].exists
    THEN << >>
    ELSE read_rows(fs[csv_path].rows, << >>)

\* areas.py lines 12-14: the loader body opens the file when the path exists
file_opened(csv_path, fs) ==
    csv_path # "" /\ csv_path \in DOMAIN fs /\ fs[csv_path].exists

\* areas.py line 6: @lru_cache(maxsize=1), one entry keyed by csv_path
EMPTY_CACHE == [filled |-> FALSE]
CacheEntry(csv_path, d) == [filled |-> TRUE, csv_path |-> csv_path, value |-> d]
cache_hit(cache, csv_path) == cache.filled /\ cache.csv_path = csv_path

\* variant: no memoization, every call runs the loader body
cargar_diccionario_areas_no_cache(cache, csv_path, fs) ==
    LET d == load_areas(csv_path, fs)
    IN  [value |-> d, cache |-> CacheEntry(csv_path, d), miss |-> TRUE,
         read |-> file_opened(csv_path, fs)]

cargar_diccionario_areas(cache, csv_path, fs) ==
    IF cache_hit(cache, csv_path)
    THEN [value |-> cache.value, cache |-> cache, miss |-> FALSE,
          read |-> FALSE]
    ELSE LET d == load_areas(csv_path, fs)
         IN  [value |-> d, cache |-> CacheEntry(csv_path, d), miss |-> TRUE,
              read |-> file_opened(csv_path, fs)]

\* service.py lines 41-54: roots and extensions in search order
LOGO_EXTS == <<"png", "jpg", "jpeg", "gif", "bmp">>
LOGO_ROOTS == <<"images", ".", "assets", "static">>

_find_logo_for_area(area_code, logos) ==
    IF area_code = <<>> THEN NONE
    ELSE LET found == {<<r, x>> \in (1..Len(LOGO_ROOTS)) \X (1..Len(LOGO_EXTS)) :
                          LogoFile(LOGO_ROOTS[r], area_code, LOGO_EXTS[x]) \in logos}
         IN  IF found = {} THEN NONE
             ELSE LET first == CHOOSE p \in found :
                          \A q \in found : p[1] < q[1] \/ (p[1] = q[1] /\ p[2] <= q[2])
                  IN  LogoFile(LOGO_ROOTS[first[1]], area_code, LOGO_EXTS[first[2]])

\* service.py line 72
area_name_of(p, areas_dict, area_code) ==
    LET given == or_empty(dict_get(p, "area_name"))
    IN  IF given # <<>> THEN given
        ELSE IF area_code \in DOMAIN areas_dict /\ areas_dict[area_code] # <<>>
        THEN areas_dict[area_code]
        ELSE IF area_code # <<>> THEN <<"Á", "r", "e", "a", " ">> \o area_code
        ELSE <<>>

\* ---- request bodies ----
Bodies ==
    [resultado_conformidad :
        {ABSENT, Word("conforme"), Word("no_conforme"), Word("no conforme")},
     motivo_no_conformidad :
        {ABSENT, NONE, Str(<<>>), Str(<<" ", " ">>), Str(<<" ", "x", " ">>)},
     area_code : {ABSENT, Str(<<"1">>), Str(<<"A">>)},
     area_name : {ABSENT, Str(<<"N">>)},
     areas_csv_path : {ABSENT, Word(CSV_OTHER)}]

MOTIVO_OBLIGATORIO ==
    <<"motivo_no_conformidad",
      "es obligatorio cuando resultado_conformidad = 'no_conforme'">>
RESULTADO_INVALIDO ==
    <<"resultado_conformidad", "debe ser 'conforme' o 'no_conforme'">>
ERROR_INFORME(msg) == <<"Error generando informe:">> \o msg

\* main.py lines 129-133: str with pattern ^(conforme|no_conforme)$,
\* default "conforme"
validate_resultado_conformidad(v) ==
    IF v = ABSENT THEN Ret(Word("conforme"))
    ELSE IF v.kind = "word" /\ v.w \in {"conforme", "no_conforme"} THEN Ret(v)
    ELSE Raise([loc |-> <<"body", "resultado_conformidad">>,
                msg |-> <<"String should match pattern">>])

\* main.py lines 139-146: the field validator; data holds the fields
\* validated before this one
_motivo_required_when_no_conforme(v, data) ==
    IF /\ "resultado_conformidad" \in DOMAIN data
       /\ data["resultado_conformidad"] = Word("no_conforme")
       /\ strip(or_empty(v)) = <<>>
    THEN Raise(ValueError(MOTIVO_OBLIGATORIO))
    ELSE Ret(v)

\* main.py lines 94-146: validation of the body into InformeWSPayload and
\* model_dump; a field validator is not run for a field left to its default
InformeWSPayload(b) ==
    LET r == validate_resultado_conformidad(b.resultado_conformidad)
        data == [k \in (IF r.raised THEN {} ELSE {"resultado_conformidad"})
                    |-> r.val]
        m == IF b.motivo_no_conformidad = ABSENT THEN Ret(NONE)
             ELSE _motivo_required_when_no_conforme(b.motivo_no_conformidad, data)
        errors ==
            (IF r.raised THEN <<r.exc>> ELSE <<>>) \o
            (IF m.raised
             THEN <<[loc |-> <<"body", "motivo_no_conformidad">>,
                     msg |-> <<"Value error,">> \o m.exc.msg]>>
             ELSE <<>>)
    IN  IF errors # <<>> THEN Raise(errors)
        ELSE Ret([resultado_conformidad |-> r.val,
                  motivo_no_conformidad |-> m.val,
                  area_code |-> dict_get(b, "area_code"),
                  area_name |-> dict_get(b, "area_name"),
                  areas_csv_path |-> IF b.areas_csv_path = ABSENT
                                     THEN Word(CSV_DEFAULT)
                                     ELSE b.areas_csv_path])

\* variant: the reason is tested without trimming
validar_conformidad_no_strip(p) ==
    LET resultado == IF p.resultado_conformidad = ABSENT
                     THEN Word("conforme") ELSE p.resultado_conformidad
    IN  IF resultado \notin {Word("conforme"), Word("no_conforme")}
        THEN Raise(ValueError(RESULTADO_INVALIDO))
        ELSE IF /\ resultado = Word("no_conforme")
                /\ or_empty(dict_get(p, "motivo_no_conformidad")) = <<>>
        THEN Raise(ValueError(MOTIVO_OBLIGATORIO))
        ELSE Ret(resultado)

\* service.py lines 85-89
validar_conformidad(p) ==
    LET resultado == IF p.resultado_conformidad = ABSENT
                     THEN Word("conforme") ELSE p.resultado_conformidad
    IN  IF resultado \notin {Word("conforme"), Word("no_conforme")}
        THEN Raise(ValueError(RESULTADO_INVALIDO))
        ELSE IF /\ resultado = Word("no_conforme")
                /\ strip(or_empty(dict_get(p, "motivo_no_conformidad"))) = <<>>
        THEN Raise(ValueError(MOTIVO_OBLIGATORIO))
        ELSE Ret(resultado)

NoBody ==
    [resultado_conformidad |-> ABSENT, motivo_no_conformidad |-> ABSENT,
     area_code |-> ABSENT, area_name |-> ABSENT, areas_csv_path |-> ABSENT]
NoArea ==
    [areas_dict |-> << >>, table_read |-> FALSE,
     area_code |-> <<>>, area_name |-> <<>>, area_logo |-> NONE]

\* ---- the handler, step by step ----
\* main.py lines 442-450: the body is validated into InformeWSPayload
\* (422 on failure) and dumped to the payload dict
ApiGenerarInformeOf(bodies) ==
    /\ inf_pc \in {"idle", "done"}
    /\ \E b \in bodies :
        /\ body' = b
        /\ LET v == InformeWSPayload(b)
           IN  IF v.raised
               THEN /\ inf_response' = ErrorResponse(422, v.exc)
                    /\ payload' = NoBody
                    /\ inf_pc' = "done"
               ELSE /\ inf_response' = NoResponse
                    /\ payload' = v.val
                    /\ inf_pc' = "areas"
    /\ entry' = "api"
    /\ logged' = <<>>
    /\ area' = NoArea
    /\ inf_exc' = NoException
    /\ acta_data' = NONE
    /\ UNCHANGED <<files, logo_files, areas_cache, areas_loaded>>

ApiGenerarInforme == ApiGenerarInformeOf(Bodies)

\* service.py line 60: the assembler called with a payload dict as it is
CallAssemblerOf(bodies) ==
    /\ inf_pc \in {"idle", "done"}
    /\ \E b \in bodies :
        /\ body' = b
        /\ payload' = b
    /\ entry' = "service"
    /\ logged' = <<>>
    /\ inf_pc' = "areas"
    /\ inf_response' = NoResponse
    /\ area' = NoArea
    /\ inf_exc' = NoException
    /\ acta_data' = NONE
    /\ UNCHANGED <<files, logo_files, areas_cache, areas_loaded>>

CallAssembler == CallAssemblerOf(Bodies)

\* service.py lines 70-73: area table, area code, area name, logo
AreaLookup ==
    /\ inf_pc = "areas"
    /\ LET csv_path == IF payload.areas_csv_path = ABSENT
                       THEN CSV_DEFAULT ELSE payload.areas_csv_path.w
           c == cargar_diccionario_areas(areas_cache, csv_path, files)
           area_code == _normalize_area_code(dict_get(payload, "area_code"))
       IN  /\ areas_cache' = c.cache
           /\ areas_loaded' = IF c.miss /\ csv_path \notin DOMAIN areas_loaded
                              THEN dict_put(areas_loaded, csv_path, c.value)
                              ELSE areas_loaded
           /\ area' = [areas_dict |-> c.value,
                       table_read |-> c.read,
                       area_code |-> area_code,
                       area_name |-> area_name_of(payload, c.value, area_code),
                       area_logo |-> IF area_code # <<>>
                                     THEN _find_logo_for_area(area_code, logo_files)
                                     ELSE NONE]
    /\ inf_pc' = "conformidad"
    /\ UNCHANGED <<body, entry, payload, files, logo_files, inf_exc, acta_data,
                   inf_response>>

\* service.py lines 84-129: the cross-field rule, the data dict and the
\* document renderer (the budget applications and the plain text fields of
\* the dict are not varied)
ConformidadYActa ==
    /\ inf_pc = "conformidad"
    /\ LET r == validar_conformidad(payload)
       IN  IF r.raised
           THEN /\ inf_exc' = r.exc
                /\ inf_pc' = IF entry = "api" THEN "api_except" ELSE "done"
                /\ UNCHANGED acta_data
           ELSE /\ acta_data' =
                        [area_code |-> area.area_code,
                         area_name |-> area.area_name,
                         area_logo |-> area.area_logo,
                         resultado_conformidad |-> r.val,
                         motivo_no_conformidad |->
                            strip(or_empty(dict_get(payload, "motivo_no_conformidad")))]
                /\ inf_pc' = IF entry = "api" THEN "api_return" ELSE "done"
                /\ UNCHANGED inf_exc
    /\ UNCHANGED <<body, entry, payload, files, logo_files, areas_cache,
                   areas_loaded, area, inf_response>>

\* main.py lines 454-459
InformeReturn ==
    /\ inf_pc = "api_return"
    /\ inf_response' = PdfResponse(acta_data)
    /\ inf_pc' = "done"
    /\ UNCHANGED <<body, entry, payload, files, logo_files, areas_cache,
                   areas_loaded, area, inf_exc, acta_data>>

\* main.py lines 460-465: ValueError is a 400, anything else a 500
InformeExcept ==
    /\ inf_pc = "api_except"
    /\ inf_response' = IF inf_exc.type = "ValueError"
                       THEN ErrorResponse(400, inf_exc.msg)
                       ELSE ErrorResponse(500, ERROR_INFORME(inf_exc.msg))
    /\ logged' = IF inf_exc.type = "ValueError"
                 THEN Append(logged, logger_warning(INFORME_BAD_REQUEST, inf_exc))
                 ELSE Append(logged, logger_exception(INFORME_INTERNAL, inf_exc))
    /\ inf_pc' = "done"
    /\ UNCHANGED <<body, entry, payload, files, logo_files, areas_cache,
                   areas_loaded, area, inf_exc, acta_data>>

\* ---- the area files change on disk while the process runs ----
FileContents == {NO_FILE, CsvFile(AreasRows), CsvFile(OtrasRows)}

\* a CSV file is written, replaced or removed (by an operator, outside the
\* service)
ChangeFile ==
    /\ \E p \in CsvPaths, c \in FileContents :
        /\ files[p] # c
        /\ files' = [files EXCEPT ![p] = c]
    /\ UNCHANGED <<body, entry, payload, logo_files, areas_cache, areas_loaded,
                   inf_pc, area, inf_exc, acta_data, inf_response>>

\* requests that differ in the CSV path and the area code they name, and in
\* whether the assembler accepts them
AreaBodies ==
    [resultado_conformidad : {ABSENT, Word("no_conforme")},
     motivo_no_conformidad : {ABSENT},
     area_code : {ABSENT, Str(<<"1">>)},
     area_name : {ABSENT},
     areas_csv_path : {ABSENT, Word(CSV_OTHER)}]

\* the requests of SpecNorm: area codes of every shape
AreaCodes ==
    {<<>>, <<" ">>, <<"0">>, <<"1">>, <<"0", "1">>, <<"1", "2">>,
     <<"1", "2", "3">>, <<"0", "0", "7">>, <<" ", "7", " ">>, <<" ", "5">>,
     <<"1", " ", "2">>, <<"A">>, <<" ", "A", " ">>, <<"A", "1">>, <<"1", "A">>,
     <<"-", "1">>, <<"+">>, <<"1", ".", "5">>, <<"b", " ">>}

NormBodies ==
    [resultado_conformidad : {Word("conforme"), Word("no_conforme")},
     motivo_no_conformidad : {ABSENT},
     area_code : {ABSENT, NONE} \cup {Str(c) : c \in AreaCodes},
     area_name : {ABSENT},
     areas_csv_path : {ABSENT}]

(***************************************************************************)
(* Concurrent requests in the endpoint's thread pool calling               *)
(* cargar_diccionario_areas (service.py line 70).  The lru_cache wrapper   *)
(* looks the key up, runs the loader body outside its lock on a miss, and  *)
(* stores the result afterwards unless the key has been stored meanwhile.  *)
(***************************************************************************)
Threads == 1..MaxThreads

IdleThread ==
    [pc |-> "idle", csv_path |-> "", first_call |-> FALSE, file_read |-> NONE,
     d |-> << >>]

\* variant: a hand-rolled memo that publishes the empty dict before filling it
lru_after_miss_placeholder(cache, key) == CacheEntry(key, << >>)

\* areas.py line 6: a miss leaves the cache as it is until the body returns
lru_after_miss(cache, key) == cache

\* areas.py line 6: the result is stored unless the key is there already;
\* with maxsize=1 storing drops the entry of any other key
lru_store(cache, key, result) ==
    IF cache_hit(cache, key) THEN cache ELSE CacheEntry(key, result)

\* the call starts: cache lookup; first_call records that no request for the
\* same path has returned yet
LruLookup(t) ==
    /\ threads[t].pc = "call"
    /\ LET p == threads[t].csv_path
           first == \A u \in Threads :
                       threads[u].csv_path = p => threads[u].pc # "done"
       IN  IF cache_hit(areas_cache, p)
           THEN /\ threads' = [threads EXCEPT ![t].pc = "done",
                                              ![t].first_call = first,
                                              ![t].d = areas_cache.value]
                /\ UNCHANGED areas_cache
           ELSE /\ threads' = [threads EXCEPT ![t].pc = "body",
                                              ![t].first_call = first]
                /\ areas_cache' = lru_after_miss(areas_cache, p)
    /\ UNCHANGED <<body, entry, payload, files, logo_files, areas_loaded,
                   inf_pc, area, inf_exc, acta_data, inf_response>>

\* areas.py lines 11-24: the loader body fills its own local dict
LoaderBody(t) ==
    /\ threads[t].pc = "body"
    /\ LET p == threads[t].csv_path
       IN  threads' = [threads EXCEPT ![t].pc = "store",
                                      ![t].file_read = files[p],
                                      ![t].d = load_areas(p, files)]
    /\ UNCHANGED <<body, entry, payload, files, logo_files, areas_cache,
                   areas_loaded, inf_pc, area, inf_exc, acta_data, inf_response>>

\* the body has returned: store and hand the result to the caller
LruStore(t) ==
    /\ threads[t].pc = "store"
    /\ areas_cache' = lru_store(areas_cache, threads[t].csv_path, threads[t].d)
    /\ threads' = [threads EXCEPT ![t].pc = "done"]
    /\ UNCHANGED <<body, entry, payload, files, logo_files, areas_loaded,
                   inf_pc, area, inf_exc, acta_data, inf_response>>

(***************************************************************************)
(* The renderer's withheld-tax label: _fmt_rate (core/xsig_pdf.py lines    *)
(* 752-758) formats the rate text of each withheld tax.                    *)
(***************************************************************************)
\* str.replace(",", ".")
replace_comma(s) == [i \in 1..Len(s) |-> IF s[i] = "," THEN "." ELSE s[i]]

\* the positions of c in s
positions(s, c) == {i \in 1..Len(s) : s[i] = c}

\* float(s) for decimal literals: blanks around, an optional sign, digits with
\* at most one point and at least one digit.  The value is kept as sign,
\* integer digits and fraction digits.
float(s) ==
    LET t == strip(s)
        signed == t # <<>> /\ t[1] \in {"+", "-"}
        u == IF signed THEN Tail(t) ELSE t
        dots == positions(u, ".")
        dot == IF dots = {} THEN Len(u) + 1 ELSE CHOOSE i \in dots : TRUE
        ip == SubSeq(u, 1, dot - 1)
        fp == SubSeq(u, dot + 1, Len(u))
    IN  IF /\ Cardinality(dots) <= 1
           /\ \A i \in 1..Len(ip) : ip[i] \in DIGITS
           /\ \A i \in 1..Len(fp) : fp[i] \in DIGITS
           /\ Len(ip) + Len(fp) >= 1
        THEN Ret([neg |-> signed /\ t[1] = "-", int |-> ip, frac |-> fp])
        ELSE Raise("ValueError")

RECURSIVE int_str(_)
\* str(n) for a natural number
int_str(n) ==
    IF n < 10 THEN <<ToString(n)>>
    ELSE int_str(n \div 10) \o <<ToString(n % 10)>>

\* the values in thousandths, among those with a third decimal of 5 that are
\* not binary fractions, whose double lies above the decimal (IEEE 754):
\* 0.005, 4.995, 10.005, 100.995; the doubles of 0.995, 4.005, 10.995 and
\* 100.005 lie below
DOUBLE_ABOVE_TIE == {5, 4995, 10005, 100995}

\* f"{val:.2f}": the double rounded to two decimals; a value that is exactly
\* half way (a multiple of 1/8) goes to the even neighbour
format_2f(val) ==
    LET fp == val.frac \o <<"0", "0", "0">>
        thousandths == to_int(val.int) * 1000 + to_int(SubSeq(fp, 1, 3))
        more == \E i \in 4..Len(val.frac) : val.frac[i] # "0"
        third == thousandths % 10
        down == thousandths \div 10
        up == \/ third > 5
              \/ third = 5 /\ more
              \/ third = 5 /\ ~more /\
                    IF thousandths % 125 = 0 THEN down % 2 = 1
                    ELSE thousandths \in DOUBLE_ABOVE_TIE
        hundredths == IF up THEN down + 1 ELSE down
    IN  (IF val.neg THEN <<"-">> ELSE <<>>)
            \o int_str(hundredths \div 100) \o <<".">>
            \o pad2(hundredths % 100)

RECURSIVE rstrip_chars(_, _)
\* str.rstrip(chars)
rstrip_chars(s, chars) ==
    IF s # <<>> /\ s[Len(s)] \in chars
    THEN rstrip_chars(SubSeq(s, 1, Len(s) - 1), chars)
    ELSE s

\* variant: s.rstrip("0.")
_fmt_rate_rstrip_both(x) ==
    LET val == float(replace_comma(x))
    IN  IF val.raised THEN strip(x)
        ELSE rstrip_chars(format_2f(val.val), {"0", "."})

\* xsig_pdf.py lines 752-758
_fmt_rate(x) ==
    LET val == float(replace_comma(x))
    IN  IF val.raised THEN strip(x)
        ELSE rstrip_chars(rstrip_chars(format_2f(val.val), {"0"}), {"."})

\* xsig_pdf.py line 764: rate = _fmt_rate(d.get("rate", ""))
FmtRate ==
    /\ rate = NONE
    /\ logged = <<>>
    /\ util_value = NONE
    /\ util_max_length = 0
    /\ util_result = NONE
    /\ util_pc = "idle"
    /\ sig_info = NONE
    /\ _CLIENT_INITED = FALSE
    /\ cx_Oracle = NONE
    /\ init_attempts = 0
    /\ oracle_calls = 0
    /\ oracle_result = NONE
    /\ connection = NONE
    /\ rate' = Str(_fmt_rate(withheld_rate))
    /\ UNCHANGED withheld_rate

\* ---- rate texts ----
IntTexts == {<<>>, <<"0">>, <<"4">>, <<"1", "0">>, <<"1", "0", "0">>}

FracTexts ==
    {<<>>, <<"0">>, <<"5">>, <<"0", "0">>, <<"5", "0">>, <<"2", "5">>,
     <<"0", "5">>, <<"0", "0", "4">>, <<"0", "0", "5">>, <<"1", "2", "5">>,
     <<"3", "7", "5">>, <<"9", "9", "5">>, <<"9", "9", "9">>,
     <<"2", "5", "0", "0">>, <<"0", "0", "5", "1">>, <<"9", "9", "4", "9">>}

RateTexts ==
    {sg \o ip : sg \in {<<>>, <<"-">>}, ip \in IntTexts}
        \cup {sg \o ip \o sep \o fp :
                sg \in {<<>>, <<"-">>, <<"+">>}, ip \in IntTexts,
                sep \in {<<".">>, <<",">>}, fp \in FracTexts}
        \cup {<<" ">> \o ip \o <<".">> \o fp \o <<" ">> :
                ip \in IntTexts, fp \in FracTexts}
        \cup {<<"x">>, <<" ", "x", " ">>, <<"4", " ", "%">>, <<" ", "4", "%">>,
              <<"4", ".", "5", ".", "1">>, <<"1", ",", "2", ",", "3">>,
              <<"-", "-", "4">>, <<"4", "-">>, <<"4", " ", ".", "5">>,
              <<" ">>, <<"N", "/", "A">>}

(***************************************************************************)
(* Specifications.  Each one drives one part of the service and leaves     *)
(* the variables of the other parts idle.                                  *)
(***************************************************************************)
\* the container unwrapper on every container input
UnwrapInit ==
    /\ xsig_bytes \in ContainerInputs
    /\ xml_bytes = <<>>
    /\ unwrap_pc = "call"
    /\ xml_root = Root(<<>>, <<>>)
    /\ crypto_has_utc = TRUE
    /\ now = 0
    /\ firma = [estado |-> <<>>]
    /\ sig_calls = {}
    /\ sig_pc = "idle"
    /\ form = [fecha_registro |-> NONE, fecha_registro_date |-> NONE,
               hora_registro_time |-> NONE]
    /\ et_doc = Root(<<>>, <<>>)
    /\ pc = "idle"
    /\ fecha_registro = NONE
    /\ exc = NoException
    /\ invoice_data = NoInvoice
    /\ calls = {}
    /\ pdf = NoPdf
    /\ response = NoResponse
    /\ body = NoBody
    /\ entry = "idle"
    /\ payload = NoBody
    /\ files = [p \in CsvPaths |-> NO_FILE]
    /\ logo_files = {}
    /\ areas_cache = EMPTY_CACHE
    /\ areas_loaded = << >>
    /\ inf_pc = "off"
    /\ area = NoArea
    /\ inf_exc = NoException
    /\ acta_data = NONE
    /\ inf_response = NoResponse
    /\ threads = [t \in Threads |-> IdleThread]
    /\ withheld_rate = <<>>
    /\ rate = NONE
    /\ logged = <<>>
    /\ util_value = NONE
    /\ util_max_length = 0
    /\ util_result = NONE
    /\ util_pc = "idle"
    /\ sig_info = NONE
    /\ _CLIENT_INITED = FALSE
    /\ cx_Oracle = NONE
    /\ init_attempts = 0
    /\ oracle_calls = 0
    /\ oracle_result = NONE
    /\ connection = NONE

UnwrapNext == ExtractXml /\ UNCHANGED <<sigVars, pipeVars, infVars, raceVars, rateVars, logVars, pureVars>>

SpecUnwrap == UnwrapInit /\ [][UnwrapNext]_vars

\* the validator on every signed root, clock and library version
SigInit ==
    /\ xml_root \in SignedRoots
    /\ crypto_has_utc \in BOOLEAN
    /\ now \in Times
    /\ firma = [estado |-> <<>>]
    /\ sig_calls = {}
    /\ sig_pc = "call"
    /\ xsig_bytes = <<>>
    /\ xml_bytes = <<>>
    /\ unwrap_pc = "idle"
    /\ form = [fecha_registro |-> NONE, fecha_registro_date |-> NONE,
               hora_registro_time |-> NONE]
    /\ et_doc = Root(<<>>, <<>>)
    /\ pc = "idle"
    /\ fecha_registro = NONE
    /\ exc = NoException
    /\ invoice_data = NoInvoice
    /\ calls = {}
    /\ pdf = NoPdf
    /\ response = NoResponse
    /\ body = NoBody
    /\ entry = "idle"
    /\ payload = NoBody
    /\ files = [p \in CsvPaths |-> NO_FILE]
    /\ logo_files = {}
    /\ areas_cache = EMPTY_CACHE
    /\ areas_loaded = << >>
    /\ inf_pc = "off"
    /\ area = NoArea
    /\ inf_exc = NoException
    /\ acta_data = NONE
    /\ inf_response = NoResponse
    /\ threads = [t \in Threads |-> IdleThread]
    /\ withheld_rate = <<>>
    /\ rate = NONE
    /\ logged = <<>>
    /\ util_value = NONE
    /\ util_max_length = 0
    /\ util_result = NONE
    /\ util_pc = "idle"
    /\ sig_info = NONE
    /\ _CLIENT_INITED = FALSE
    /\ cx_Oracle = NONE
    /\ init_attempts = 0
    /\ oracle_calls = 0
    /\ oracle_result = NONE
    /\ connection = NONE

SigNext == ExtractSignatureInfo /\ UNCHANGED <<unwrapVars, pipeVars, infVars, raceVars, rateVars, logVars, pureVars>>

SpecSig == SigInit /\ [][SigNext]_vars

\* one request to POST /api/xml2pdf, for every upload, document, form and clock
Init ==
    /\ xsig_bytes \in Uploads
    /\ et_doc \in UploadDocs
    /\ form \in Forms
    /\ now \in Times
    /\ crypto_has_utc = TRUE
    /\ pc = "api_xml_a_pdf"
    /\ xml_bytes = <<>>
    /\ unwrap_pc = "idle"
    /\ xml_root = Root(<<>>, <<>>)
    /\ firma = [estado |-> <<>>]
    /\ sig_calls = {}
    /\ sig_pc = "idle"
    /\ fecha_registro = NONE
    /\ exc = NoException
    /\ invoice_data = NoInvoice
    /\ calls = {}
    /\ pdf = NoPdf
    /\ response = NoResponse
    /\ body = NoBody
    /\ entry = "idle"
    /\ payload = NoBody
    /\ files = [p \in CsvPaths |-> NO_FILE]
    /\ logo_files = {}
    /\ areas_cache = EMPTY_CACHE
    /\ areas_loaded = << >>
    /\ inf_pc = "off"
    /\ area = NoArea
    /\ inf_exc = NoException
    /\ acta_data = NONE
    /\ inf_response = NoResponse
    /\ threads = [t \in Threads |-> IdleThread]
    /\ withheld_rate = <<>>
    /\ rate = NONE
    /\ logged = <<>>
    /\ util_value = NONE
    /\ util_max_length = 0
    /\ util_result = NONE
    /\ util_pc = "idle"
    /\ sig_info = NONE
    /\ _CLIENT_INITED = FALSE
    /\ cx_Oracle = NONE
    /\ init_attempts = 0
    /\ oracle_calls = 0
    /\ oracle_result = NONE
    /\ connection = NONE

Next ==
    \/ ApiXmlAPdf
    \/ GenerarPdfDesdeXsig
    \/ RenderPdfFromXsig
    \/ ExtractInvoiceData
    \/ GeneratePdf
    \/ ApiReturn
    \/ ApiExcept

Spec == Init /\ [][Next]_vars

\* the handler is a single thread of control: a step that can be taken is taken
LiveSpec == Spec /\ WF_vars(Next)

\* requests to POST /api/informe and direct calls of the assembler, one after
\* another in one process
InformeInit ==
    /\ files \in FileSystems
    /\ logo_files \in LogoSets
    /\ areas_cache = EMPTY_CACHE
    /\ areas_loaded = << >>
    /\ inf_pc = "idle"
    /\ body = NoBody
    /\ entry = "idle"
    /\ payload = NoBody
    /\ area = NoArea
    /\ inf_exc = NoException
    /\ acta_data = NONE
    /\ inf_response = NoResponse
    /\ threads = [t \in Threads |-> IdleThread]
    /\ withheld_rate = <<>>
    /\ rate = NONE
    /\ logged = <<>>
    /\ util_value = NONE
    /\ util_max_length = 0
    /\ util_result = NONE
    /\ util_pc = "idle"
    /\ sig_info = NONE
    /\ _CLIENT_INITED = FALSE
    /\ cx_Oracle = NONE
    /\ init_attempts = 0
    /\ oracle_calls = 0
    /\ oracle_result = NONE
    /\ connection = NONE
    /\ xsig_bytes = <<>>
    /\ xml_bytes = <<>>
    /\ unwrap_pc = "idle"
    /\ xml_root = Root(<<>>, <<>>)
    /\ crypto_has_utc = TRUE
    /\ now = 0
    /\ firma = [estado |-> <<>>]
    /\ sig_calls = {}
    /\ sig_pc = "idle"
    /\ form = [fecha_registro |-> NONE, fecha_registro_date |-> NONE,
               hora_registro_time |-> NONE]
    /\ et_doc = Root(<<>>, <<>>)
    /\ pc = "idle"
    /\ fecha_registro = NONE
    /\ exc = NoException
    /\ invoice_data = NoInvoice
    /\ calls = {}
    /\ pdf = NoPdf
    /\ response = NoResponse

InformeNext ==
    \/ ApiGenerarInforme /\ UNCHANGED <<unwrapVars, sigVars, pipeVars, raceVars, rateVars, pureVars>>
    \/ CallAssembler /\ UNCHANGED <<unwrapVars, sigVars, pipeVars, raceVars, rateVars, pureVars>>
    \/ AreaLookup /\ UNCHANGED <<unwrapVars, sigVars, pipeVars, raceVars, rateVars, logVars, pureVars>>
    \/ ConformidadYActa /\ UNCHANGED <<unwrapVars, sigVars, pipeVars, raceVars, rateVars, logVars, pureVars>>
    \/ InformeReturn /\ UNCHANGED <<unwrapVars, sigVars, pipeVars, raceVars, rateVars, logVars, pureVars>>
    \/ InformeExcept /\ UNCHANGED <<unwrapVars, sigVars, pipeVars, raceVars, rateVars, pureVars>>

SpecInforme == InformeInit /\ [][InformeNext]_vars

\* a process serving conformity requests for either CSV path while the CSV
\* files change underneath it
AreasInit ==
    /\ files \in [CsvPaths -> FileContents]
    /\ logo_files \in LogoSets
    /\ inf_pc = "idle"
    /\ xsig_bytes = <<>>
    /\ xml_bytes = <<>>
    /\ unwrap_pc = "idle"
    /\ xml_root = Root(<<>>, <<>>)
    /\ crypto_has_utc = TRUE
    /\ now = 0
    /\ firma = [estado |-> <<>>]
    /\ sig_calls = {}
    /\ sig_pc = "idle"
    /\ form = [fecha_registro |-> NONE, fecha_registro_date |-> NONE,
               hora_registro_time |-> NONE]
    /\ et_doc = Root(<<>>, <<>>)
    /\ pc = "idle"
    /\ fecha_registro = NONE
    /\ exc = NoException
    /\ invoice_data = NoInvoice
    /\ calls = {}
    /\ pdf = NoPdf
    /\ response = NoResponse
    /\ body = NoBody
    /\ entry = "idle"
    /\ payload = NoBody
    /\ areas_cache = EMPTY_CACHE
    /\ areas_loaded = << >>
    /\ area = NoArea
    /\ inf_exc = NoException
    /\ acta_data = NONE
    /\ inf_response = NoResponse
    /\ threads = [t \in Threads |-> IdleThread]
    /\ withheld_rate = <<>>
    /\ rate = NONE
    /\ logged = <<>>
    /\ util_value = NONE
    /\ util_max_length = 0
    /\ util_result = NONE
    /\ util_pc = "idle"
    /\ sig_info = NONE
    /\ _CLIENT_INITED = FALSE
    /\ cx_Oracle = NONE
    /\ init_attempts = 0
    /\ oracle_calls = 0
    /\ oracle_result = NONE
    /\ connection = NONE

AreasNext ==
    \/ ApiGenerarInformeOf(AreaBodies) /\ UNCHANGED <<unwrapVars, sigVars, pipeVars, raceVars, rateVars, pureVars>>
    \/ CallAssemblerOf(AreaBodies) /\ UNCHANGED <<unwrapVars, sigVars, pipeVars, raceVars, rateVars, pureVars>>
    \/ AreaLookup /\ UNCHANGED <<unwrapVars, sigVars, pipeVars, raceVars, rateVars, logVars, pureVars>>
    \/ ConformidadYActa /\ UNCHANGED <<unwrapVars, sigVars, pipeVars, raceVars, rateVars, logVars, pureVars>>
    \/ InformeReturn /\ UNCHANGED <<unwrapVars, sigVars, pipeVars, raceVars, rateVars, logVars, pureVars>>
    \/ InformeExcept /\ UNCHANGED <<unwrapVars, sigVars, pipeVars, raceVars, rateVars, pureVars>>
    \/ ChangeFile /\ UNCHANGED <<unwrapVars, sigVars, pipeVars, raceVars, rateVars, logVars, pureVars>>

SpecAreas == AreasInit /\ [][AreasNext]_vars

\* the first requests of a process reach the loader at the same time, while
\* the CSV files may change underneath
RaceInit ==
    /\ files \in [CsvPaths -> FileContents]
    /\ threads \in [Threads -> {[IdleThread EXCEPT !.pc = "call", !.csv_path = p] :
                                    p \in CsvPaths}]
    /\ withheld_rate = <<>>
    /\ rate = NONE
    /\ logged = <<>>
    /\ util_value = NONE
    /\ util_max_length = 0
    /\ util_result = NONE
    /\ util_pc = "idle"
    /\ sig_info = NONE
    /\ _CLIENT_INITED = FALSE
    /\ cx_Oracle = NONE
    /\ init_attempts = 0
    /\ oracle_calls = 0
    /\ oracle_result = NONE
    /\ connection = NONE
    /\ xsig_bytes = <<>>
    /\ xml_bytes = <<>>
    /\ unwrap_pc = "idle"
    /\ xml_root = Root(<<>>, <<>>)
    /\ crypto_has_utc = TRUE
    /\ now = 0
    /\ firma = [estado |-> <<>>]
    /\ sig_calls = {}
    /\ sig_pc = "idle"
    /\ form = [fecha_registro |-> NONE, fecha_registro_date |-> NONE,
               hora_registro_time |-> NONE]
    /\ et_doc = Root(<<>>, <<>>)
    /\ pc = "idle"
    /\ fecha_registro = NONE
    /\ exc = NoException
    /\ invoice_data = NoInvoice
    /\ calls = {}
    /\ pdf = NoPdf
    /\ response = NoResponse
    /\ body = NoBody
    /\ entry = "idle"
    /\ payload = NoBody
    /\ logo_files = {}
    /\ areas_cache = EMPTY_CACHE
    /\ areas_loaded = << >>
    /\ inf_pc = "off"
    /\ area = NoArea
    /\ inf_exc = NoException
    /\ acta_data = NONE
    /\ inf_response = NoResponse

RaceNext ==
    \/ \E t \in Threads :
          LruLookup(t) /\ UNCHANGED <<unwrapVars, sigVars, pipeVars, rateVars, logVars,
                                        pureVars>>
    \/ \E t \in Threads :
          LoaderBody(t) /\ UNCHANGED <<unwrapVars, sigVars, pipeVars, rateVars, logVars,
                                        pureVars>>
    \/ \E t \in Threads :
          LruStore(t) /\ UNCHANGED <<unwrapVars, sigVars, pipeVars, rateVars, logVars,
                                        pureVars>>
    \/ ChangeFile /\ UNCHANGED <<unwrapVars, sigVars, pipeVars, raceVars, rateVars, logVars, pureVars>>

SpecRace == RaceInit /\ [][RaceNext]_vars

\* the extractor applied to a parsed document
ExtractInit ==
    /\ xml_root \in InvoiceRoots
    /\ crypto_has_utc \in BOOLEAN
    /\ now \in Times
    /\ pc = "extract"
    /\ xsig_bytes = <<>>
    /\ xml_bytes = <<>>
    /\ unwrap_pc = "idle"
    /\ firma = [estado |-> <<>>]
    /\ sig_calls = {}
    /\ sig_pc = "idle"
    /\ form = [fecha_registro |-> NONE, fecha_registro_date |-> NONE,
               hora_registro_time |-> NONE]
    /\ et_doc = Root(<<>>, <<>>)
    /\ fecha_registro = NONE
    /\ exc = NoException
    /\ invoice_data = NoInvoice
    /\ calls = {}
    /\ pdf = NoPdf
    /\ response = NoResponse
    /\ body = NoBody
    /\ entry = "idle"
    /\ payload = NoBody
    /\ files = [p \in CsvPaths |-> NO_FILE]
    /\ logo_files = {}
    /\ areas_cache = EMPTY_CACHE
    /\ areas_loaded = << >>
    /\ inf_pc = "off"
    /\ area = NoArea
    /\ inf_exc = NoException
    /\ acta_data = NONE
    /\ inf_response = NoResponse
    /\ threads = [t \in Threads |-> IdleThread]
    /\ withheld_rate = <<>>
    /\ rate = NONE
    /\ logged = <<>>
    /\ util_value = NONE
    /\ util_max_length = 0
    /\ util_result = NONE
    /\ util_pc = "idle"
    /\ sig_info = NONE
    /\ _CLIENT_INITED = FALSE
    /\ cx_Oracle = NONE
    /\ init_attempts = 0
    /\ oracle_calls = 0
    /\ oracle_result = NONE
    /\ connection = NONE

ExtractNext == ExtractInvoiceData

SpecExtract == ExtractInit /\ [][ExtractNext]_vars

\* the rate formatter applied to the rate text of a withheld tax
RateInit ==
    /\ withheld_rate \in RateTexts
    /\ xsig_bytes = <<>>
    /\ xml_bytes = <<>>
    /\ unwrap_pc = "idle"
    /\ xml_root = Root(<<>>, <<>>)
    /\ crypto_has_utc = TRUE
    /\ now = 0
    /\ firma = [estado |-> <<>>]
    /\ sig_calls = {}
    /\ sig_pc = "idle"
    /\ form = [fecha_registro |-> NONE, fecha_registro_date |-> NONE,
               hora_registro_time |-> NONE]
    /\ et_doc = Root(<<>>, <<>>)
    /\ pc = "idle"
    /\ fecha_registro = NONE
    /\ exc = NoException
    /\ invoice_data = NoInvoice
    /\ calls = {}
    /\ pdf = NoPdf
    /\ response = NoResponse
    /\ body = NoBody
    /\ entry = "idle"
    /\ payload = NoBody
    /\ files = [p \in CsvPaths |-> NO_FILE]
    /\ logo_files = {}
    /\ areas_cache = EMPTY_CACHE
    /\ areas_loaded = << >>
    /\ inf_pc = "off"
    /\ area = NoArea
    /\ inf_exc = NoException
    /\ acta_data = NONE
    /\ inf_response = NoResponse
    /\ threads = [t \in Threads |-> IdleThread]
    /\ rate = NONE
    /\ logged = <<>>
    /\ util_value = NONE
    /\ util_max_length = 0
    /\ util_result = NONE
    /\ util_pc = "idle"
    /\ sig_info = NONE
    /\ _CLIENT_INITED = FALSE
    /\ cx_Oracle = NONE
    /\ init_attempts = 0
    /\ oracle_calls = 0
    /\ oracle_result = NONE
    /\ connection = NONE

RateNext == FmtRate /\ UNCHANGED <<unwrapVars, sigVars, pipeVars, infVars, raceVars, logVars, pureVars>>

SpecRate == RateInit /\ [][RateNext]_vars

\* the extractor applied to the same parsed document again and again while
\* the clock advances
TwiceInit ==
    /\ xml_root \in SignedRoots \cup TwiceInvoiceRoots
    /\ crypto_has_utc \in BOOLEAN
    /\ now \in Times
    /\ pc = "extract"
    /\ xsig_bytes = <<>>
    /\ xml_bytes = <<>>
    /\ unwrap_pc = "idle"
    /\ firma = [estado |-> <<>>]
    /\ sig_calls = {}
    /\ sig_pc = "idle"
    /\ form = [fecha_registro |-> NONE, fecha_registro_date |-> NONE,
               hora_registro_time |-> NONE]
    /\ et_doc = Root(<<>>, <<>>)
    /\ fecha_registro = NONE
    /\ exc = NoException
    /\ invoice_data = NoInvoice
    /\ calls = {}
    /\ pdf = NoPdf
    /\ response = NoResponse
    /\ body = NoBody
    /\ entry = "idle"
    /\ payload = NoBody
    /\ files = [p \in CsvPaths |-> NO_FILE]
    /\ logo_files = {}
    /\ areas_cache = EMPTY_CACHE
    /\ areas_loaded = << >>
    /\ inf_pc = "off"
    /\ area = NoArea
    /\ inf_exc = NoException
    /\ acta_data = NONE
    /\ inf_response = NoResponse
    /\ threads = [t \in Threads |-> IdleThread]
    /\ withheld_rate = <<>>
    /\ rate = NONE
    /\ logged = <<>>
    /\ util_value = NONE
    /\ util_max_length = 0
    /\ util_result = NONE
    /\ util_pc = "idle"
    /\ sig_info = NONE
    /\ _CLIENT_INITED = FALSE
    /\ cx_Oracle = NONE
    /\ init_attempts = 0
    /\ oracle_calls = 0
    /\ oracle_result = NONE
    /\ connection = NONE

TwiceNext ==
    \/ ExtractInvoiceData
    \/ ExtractInvoiceDataAgain

SpecTwice == TwiceInit /\ [][TwiceNext]_vars

\* conformity requests with area codes of every shape
NormInit ==
    /\ files \in [CsvPaths -> {NO_FILE, CsvFile(AreasRows)}]
    /\ inf_pc = "idle"
    /\ xsig_bytes = <<>>
    /\ xml_bytes = <<>>
    /\ unwrap_pc = "idle"
    /\ xml_root = Root(<<>>, <<>>)
    /\ crypto_has_utc = TRUE
    /\ now = 0
    /\ firma = [estado |-> <<>>]
    /\ sig_calls = {}
    /\ sig_pc = "idle"
    /\ form = [fecha_registro |-> NONE, fecha_registro_date |-> NONE,
               hora_registro_time |-> NONE]
    /\ et_doc = Root(<<>>, <<>>)
    /\ pc = "idle"
    /\ fecha_registro = NONE
    /\ exc = NoException
    /\ invoice_data = NoInvoice
    /\ calls = {}
    /\ pdf = NoPdf
    /\ response = NoResponse
    /\ body = NoBody
    /\ entry = "idle"
    /\ payload = NoBody
    /\ logo_files = {}
    /\ areas_cache = EMPTY_CACHE
    /\ areas_loaded = << >>
    /\ area = NoArea
    /\ inf_exc = NoException
    /\ acta_data = NONE
    /\ inf_response = NoResponse
    /\ threads = [t \in Threads |-> IdleThread]
    /\ withheld_rate = <<>>
    /\ rate = NONE
    /\ logged = <<>>
    /\ util_value = NONE
    /\ util_max_length = 0
    /\ util_result = NONE
    /\ util_pc = "idle"
    /\ sig_info = NONE
    /\ _CLIENT_INITED = FALSE
    /\ cx_Oracle = NONE
    /\ init_attempts = 0
    /\ oracle_calls = 0
    /\ oracle_result = NONE
    /\ connection = NONE

NormNext ==
    \/ ApiGenerarInformeOf(NormBodies) /\ UNCHANGED <<unwrapVars, sigVars, pipeVars, raceVars, rateVars, pureVars>>
    \/ CallAssemblerOf(NormBodies) /\ UNCHANGED <<unwrapVars, sigVars, pipeVars, raceVars, rateVars, pureVars>>
    \/ AreaLookup /\ UNCHANGED <<unwrapVars, sigVars, pipeVars, raceVars, rateVars, logVars, pureVars>>
    \/ ConformidadYActa /\ UNCHANGED <<unwrapVars, sigVars, pipeVars, raceVars, rateVars, logVars, pureVars>>
    \/ InformeReturn /\ UNCHANGED <<unwrapVars, sigVars, pipeVars, raceVars, rateVars, logVars, pureVars>>
    \/ InformeExcept /\ UNCHANGED <<unwrapVars, sigVars, pipeVars, raceVars, rateVars, pureVars>>

SpecNorm == NormInit /\ [][NormNext]_vars

(***************************************************************************)
(* Claims about the container unwrapper (SpecUnwrap).                      *)
(***************************************************************************)
\* the marker starts at 1-based position i of s
MarkerAt(s, i) ==
    /\ i + 4 <= Len(s)
    /\ s[i] = "<" /\ s[i + 1] = "?" /\ s[i + 2] = "x"
    /\ s[i + 3] = "m" /\ s[i + 4] = "l"

FirstMarkerAt(s, i) == MarkerAt(s, i) /\ \A k \in 1..(i - 1) : ~MarkerAt(s, k)

LastGtAt(s, j) == s[j] = ">" /\ \A k \in (j + 1)..Len(s) : s[k] # ">"

\* C1: when the input holds the marker and its last ">" lies after the first
\* marker, the result is the input from the first marker up to and including
\* the last ">" of the whole input.
C1_SliceFirstMarkerToLastGt ==
    unwrap_pc = "ret" =>
        \A i \in 1..Len(xsig_bytes), j \in 1..Len(xsig_bytes) :
            (FirstMarkerAt(xsig_bytes, i) /\ LastGtAt(xsig_bytes, j) /\ j > i)
                => xml_bytes = [n \in 1..(j - i + 1) |-> xsig_bytes[i + n - 1]]

\* C1 witness: junk before the marker and two ">" after it: the slice starts
\* at the marker and runs to the last ">", not to the first one.
C1_Witness ==
    /\ unwrap_pc = "ret"
    /\ \E i \in 2..Len(xsig_bytes), j \in 1..Len(xsig_bytes) :
        /\ FirstMarkerAt(xsig_bytes, i) /\ LastGtAt(xsig_bytes, j) /\ j > i
        /\ \E k \in (i + 1)..(j - 1) : xsig_bytes[k] = ">"
        /\ Len(xml_bytes) = j - i + 1

\* C2: with no marker, or with no ">" after the first marker, the result is
\* the input itself, byte for byte (the empty input included).
C2_PassThrough ==
    ( /\ unwrap_pc = "ret"
      /\ \/ \A i \in 1..Len(xsig_bytes) : ~MarkerAt(xsig_bytes, i)
         \/ \E i \in 1..Len(xsig_bytes) :
               /\ FirstMarkerAt(xsig_bytes, i)
               /\ \A j \in 1..Len(xsig_bytes) : (xsig_bytes[j] = ">" => j < i) )
        => xml_bytes = xsig_bytes

\* C2 witness: a marker whose only ">" comes before it
C2_Witness ==
    /\ unwrap_pc = "ret"
    /\ \E i \in 2..Len(xsig_bytes) :
        /\ FirstMarkerAt(xsig_bytes, i)
        /\ \E j \in 1..(i - 1) : xsig_bytes[j] = ">"
        /\ \A j \in i..Len(xsig_bytes) : xsig_bytes[j] # ">"
    /\ xml_bytes = xsig_bytes

(***************************************************************************)
(* Claims about the signature/certificate validator (SpecSig).             *)
(***************************************************************************)
SigReturned == sig_pc = "ret"
SigFound == SigReturned /\ firma.estado = ESTADO_FIRMA
SigNotFound == SigReturned /\ firma.estado = ESTADO_NO_CERT
SigError ==
    /\ SigReturned
    /\ Len(firma.estado) = 5
    /\ SubSeq(firma.estado, 1, 4) = <<"Error", "al", "extraer", "firma:">>

\* the certificate the first ds:X509Certificate element carries
FirstCert == Head(xml_root.X509Certificate).cert

SigningAbsentOrUnparsable ==
    \/ xml_root.SigningTime = <<>>
    \/ Head(xml_root.SigningTime).kind # "date"

Undetermined(v) ==
    Len(v) = 2 /\ v[1] = "No se pudo validar la fecha de firma:"

\* C3 as stated: valid inside the window (bounds included), not yet valid
\* before it, expired after it, for every window and every clock.
C3_AsStated ==
    SigFound =>
        /\ (FirstCert.not_before <= now /\ now <= FirstCert.not_after)
              => firma.estado_certificado = ACTUALMENTE_VALIDO
        /\ now < FirstCert.not_before
              => firma.estado_certificado = AUN_NO_VALIDO
        /\ now > FirstCert.not_after
              => firma.estado_certificado = CADUCADO

\* C3 amended: the not-yet-valid test is made first, so expired is reported
\* when now > valid_to and now >= valid_from; the three cases are exhaustive
\* and exclusive, so exactly one status is reported.
C3_CurrentStatus ==
    SigFound =>
        /\ (FirstCert.not_before <= now /\ now <= FirstCert.not_after)
              => firma.estado_certificado = ACTUALMENTE_VALIDO
        /\ now < FirstCert.not_before
              => firma.estado_certificado = AUN_NO_VALIDO
        /\ (now > FirstCert.not_after /\ now >= FirstCert.not_before)
              => firma.estado_certificado = CADUCADO

\* C3 witness: a window that ends before it starts, the clock in between
C3_Witness ==
    /\ SigFound
    /\ FirstCert.not_after < now /\ now < FirstCert.not_before
    /\ firma.estado_certificado = AUN_NO_VALIDO

\* C4: with a SigningTime that does not parse (or is absent, which gives the
\* default text), a certificate that yields Found for a parsable signing time
\* still yields Found, status_at_signing_time is the undetermined variant with
\* the parse error, and current_status is what the parsable text would give.
C4_UnparsableSigningTime ==
    /\ sig_pc # "raised"
    /\ (SigReturned /\ SigningAbsentOrUnparsable) =>
         \A st \in ParsableSigningTexts :
            LET r == _extract_signature_info_from_xml(
                        Root(xml_root.X509Certificate, <<st>>), now, crypto_has_utc)
            IN  (~r.raised /\ r.val.estado = ESTADO_FIRMA) =>
                    /\ firma.estado = ESTADO_FIRMA
                    /\ Undetermined(firma.validez_en_firma)
                    /\ firma.validez_en_firma[2] = "ParserError"
                    /\ firma.estado_certificado = r.val.estado_certificado

\* C4 witness: no SigningTime element, so the default text is what fails
C4_Witness ==
    /\ SigFound
    /\ xml_root.SigningTime = <<>>
    /\ firma.fecha_firma = NO_ESPECIFICADA
    /\ Undetermined(firma.validez_en_firma)
    /\ firma.estado_certificado = CADUCADO

\* C5: a SigningTime that parses to t gives valid-at-signing exactly when
\* valid_from <= t <= valid_to, t being the instant (the wall clock minus the
\* offset it was written with, a text without offset being read as UTC).
C5_StatusAtSigningTime ==
    (SigFound /\ ~SigningAbsentOrUnparsable) =>
        LET st == Head(xml_root.SigningTime)
            t == IF st.aware THEN st.wall - st.off ELSE st.wall
        IN  firma.validez_en_firma =
                IF FirstCert.not_before <= t /\ t <= FirstCert.not_after
                THEN VALIDO_EN_FIRMA ELSE NO_VALIDO_EN_FIRMA

\* C5 witness: the wall clock reading lies outside the window, the instant
\* inside it
C5_Witness ==
    /\ SigFound /\ ~SigningAbsentOrUnparsable
    /\ LET st == Head(xml_root.SigningTime)
       IN  /\ st.aware /\ st.off # 0
           /\ st.wall > FirstCert.not_after
           /\ st.wall - st.off <= FirstCert.not_after
           /\ FirstCert.not_before <= st.wall - st.off
    /\ firma.validez_en_firma = VALIDO_EN_FIRMA

\* C6: the validator always returns, and what it returns is exactly one of
\* NotFound, ExtractionError(detail), Found{...}; text that is not base64,
\* bytes that are no certificate and a subject that cannot be read all end in
\* ExtractionError.
C6_ValidatorTotal ==
    /\ sig_pc # "raised"
    /\ SigReturned =>
        /\ \/ SigNotFound /\ DOMAIN firma = {"estado"}
           \/ SigError /\ DOMAIN firma = {"estado"}
           \/ /\ SigFound
              /\ DOMAIN firma =
                    {"estado", "firmante", "nif", "algoritmo", "fecha_firma",
                     "valido_desde", "valido_hasta", "estado_certificado",
                     "validez_en_firma", "autoridad_certificadora"}
        /\ ( /\ xml_root.X509Certificate # <<>>
             /\ \/ Head(xml_root.X509Certificate).kind \in {"not_base64", "not_der"}
                \/ /\ Head(xml_root.X509Certificate).kind = "cert"
                   /\ ~FirstCert.subject_ok )
            => SigError

\* C6 witness: the certificate decodes and reading its subject fails
C6_Witness ==
    /\ SigError
    /\ xml_root.X509Certificate # <<>>
    /\ Head(xml_root.X509Certificate).kind = "cert"
    /\ ~FirstCert.subject_ok

\* C7: NotFound is returned exactly when there is no ds:X509Certificate
\* element or the (first) one has no text, and then nothing is decoded.
C7_NotFoundIffNoCertificate ==
    SigReturned =>
        /\ SigNotFound <=>
              \/ xml_root.X509Certificate = <<>>
              \/ Head(xml_root.X509Certificate).kind = "empty"
        /\ SigNotFound => sig_calls = {}
        /\ ~SigNotFound => "b64decode" \in sig_calls

\* C7 witness: the element is there and has no text
C7_Witness ==
    /\ SigNotFound
    /\ xml_root.X509Certificate # <<>>
    /\ Head(xml_root.X509Certificate).kind = "empty"
    /\ sig_calls = {}

(***************************************************************************)
(* Claims about the XSIG/XML -> PDF pipeline (Spec, LiveSpec).             *)
(***************************************************************************)
HasFirmaBlock(doc) ==
    \E i \in 1..Len(doc.elements) : doc.elements[i] = "Firma electrónica"

PipelineDelivered ==
    /\ pc = "done"
    /\ response.status_code = 200
    /\ response.content = pdf
    /\ calls = {"_extract_invoice_data_from_xml", "_generate_pdf_from_invoice"}
    /\ invoice_data.Firma = firma
    /\ Len(pdf.elements) >= 3

UnwrappedMalformed ==
    /\ xsig_bytes # <<>>
    /\ ET_fromstring(_extract_xml_from_xsig_bytes(xsig_bytes), et_doc).raised

\* the request's date and time fields are absent or well formed
FormAccepted ==
    /\ form.fecha_registro \in {NONE, FormText(""), FormText("iso")}
    /\ form.fecha_registro_date # FormText("bad")
    /\ form.hora_registro_time # FormText("bad")

\* C9: a non-empty upload whose unwrapped bytes are not well-formed XML
\* (sent with well-formed date fields) is answered with a 4xx status, and
\* neither the extractor nor the document renderer has been called.
C9_MalformedXmlIs4xx ==
    (pc = "done" /\ UnwrappedMalformed /\ FormAccepted) =>
        /\ response.status_code \in 400..499
        /\ calls = {}

(***************************************************************************)
(* Claims about the conformity report (SpecInforme).                       *)
(***************************************************************************)
\* the request says no_conforme and gives no reason: key missing, null,
\* empty or only blanks
NoConformeSinMotivo ==
    /\ body.resultado_conformidad = Word("no_conforme")
    /\ \/ body.motivo_no_conformidad \in {ABSENT, NONE}
       \/ \A i \in 1..Len(body.motivo_no_conformidad.s) :
              body.motivo_no_conformidad.s[i] = " "

\* the request was rejected with a validation error about field: a 422 whose
\* error list has an entry located at the field, a 400 whose message starts
\* with the field, or (direct call) a ValueError whose message starts with it
RejectedNaming(field) ==
    \/ /\ entry = "api"
       /\ inf_response.status_code = 422
       /\ \E i \in 1..Len(inf_response.detail) :
              inf_response.detail[i].loc = <<"body", field>>
    \/ /\ entry = "api"
       /\ inf_response.status_code = 400
       /\ Head(inf_response.detail) = field
    \/ /\ entry = "service"
       /\ inf_exc.type = "ValueError"
       /\ Head(inf_exc.msg) = field

LookupStep == inf_pc = "areas" /\ inf_pc' = "conformidad"

\* the CSV path the request at hand names
RequestedCsvPath ==
    IF payload.areas_csv_path = ABSENT THEN CSV_DEFAULT
    ELSE payload.areas_csv_path.w

AllReturned == \A t \in Threads : threads[t].pc = "done"

\* the requests for path p whose call began before any request for p returned
Racers(p) ==
    {t \in Threads : threads[t].csv_path = p /\ threads[t].first_call}

\* every racer that read the file found the same contents
SameContentsRead(p) ==
    \A i, j \in Racers(p) :
        (threads[i].file_read # NONE /\ threads[j].file_read # NONE)
            => threads[i].file_read = threads[j].file_read

SameTable(p) ==
    /\ \A i, j \in Racers(p) : threads[i].d = threads[j].d
    /\ (\A t \in Threads : threads[t].csv_path = p) =>
           /\ areas_cache.filled
           /\ areas_cache.csv_path = p
           /\ \A t \in Racers(p) : areas_cache.value = threads[t].d

\* every usable row of the file a request read is in the table it obtained
WholeTable(t) ==
    LET f == threads[t].file_read
    IN  (f # NONE /\ f.exists) =>
            \A k \in 1..Len(f.rows) :
                (Len(f.rows[k]) >= 2 /\ strip(f.rows[k][1]) # << >>)
                    => zfill2(strip(f.rows[k][1])) \in DOMAIN threads[t].d

Extracted == pc = "generate"

\* the party nodes and the entries of the record made from them
PartyRecords ==
    {<<"SellerParty", "Emisor">>, <<"BuyerParty", "Receptor">>,
     <<"ThirdParty", "Tercero">>}

PARTY_FIELDS ==
    {"Nombre", "NIF", "Dirección", "Poblacion", "Cod.Postal", "Provincia"}
ADDRESS_FIELDS == {"Dirección", "Poblacion", "Cod.Postal", "Provincia"}
DESTINATION_FIELDS == <<"OfiCont", "OrgGest", "Und.Tram">>
HEADER_FIELDS ==
    {"Número de Factura", "Fecha", "Tipo Dcomento", "Moneda", "Clase Factura"}
LINE_FIELDS ==
    {<<"ItemDescription", "Descripción">>, <<"Quantity", "Cantidad">>,
     <<"UnitPriceWithoutTax", "Precio Unitario">>, <<"TotalCost", "Importe">>}

\* a str: a sequence of characters or tokens
IsText(v) == \A i \in DOMAIN v : v[i] \in STRING

\* the field is in the record and holds a str
Printable(rec, f) == f \in DOMAIN rec /\ IsText(rec[f])

\* C13: every optional textual field of the record is present and holds a
\* string, in each party record too, and holds "N/A" when its node is absent
C13_SentinelOnMissing ==
    Extracted =>
        /\ \A pk \in PartyRecords : \A f \in PARTY_FIELDS :
              /\ Printable(invoice_data[pk[2]], f)
              /\ xml_root[pk[1]] = ABSENT => invoice_data[pk[2]][f] = NA
        /\ \A i \in 1..3 :
              /\ Printable(invoice_data["Receptor"], DESTINATION_FIELDS[i])
              /\ xml_root.BuyerParty = ABSENT =>
                     invoice_data["Receptor"][DESTINATION_FIELDS[i]] = NA
        /\ \A f \in HEADER_FIELDS :
              /\ Printable(invoice_data, f)
              /\ xml_root.Invoice = ABSENT =>
                     invoice_data[f] = NA
        /\ \A i \in DOMAIN invoice_data["Conceptos"] : \A lf \in LINE_FIELDS :
              /\ Printable(invoice_data["Conceptos"][i], lf[2])
              /\ xml_root.Invoice.Items[i][lf[1]] = <<>> =>
                     invoice_data["Conceptos"][i][lf[2]] = NA

C15_Destinations ==
    Extracted =>
        LET centres == IF xml_root.BuyerParty = ABSENT THEN <<>>
                       ELSE xml_root.BuyerParty.AdministrativeCentres
        IN  \A i \in 1..3 :
                invoice_data["Receptor"][DESTINATION_FIELDS[i]] =
                    IF i <= Len(centres)
                    THEN findtext(centres[i].CentreCode, NA)
                            \o <<" ", "-", " ">>
                            \o findtext(centres[i].Name, NA)
                    ELSE NA

C15_Witness ==
    /\ Extracted
    /\ xml_root.BuyerParty # ABSENT
    /\ Len(xml_root.BuyerParty.AdministrativeCentres) = 4
    /\ invoice_data["Receptor"]["OfiCont"] = <<"1", " ", "-", " ", "a">>
    /\ invoice_data["Receptor"]["OrgGest"] = <<"2", " ", "-", " ", "b">>
    /\ invoice_data["Receptor"]["Und.Tram"] = <<"1", " ", "-", " ", "a">>

\* C16: with an Invoice element the number is the series code ("" when the
\* series node is absent or empty) directly followed by the invoice number;
\* without an Invoice element it is "N/A"
C16_InvoiceNumber ==
    Extracted =>
        LET inv == xml_root.Invoice
            number == invoice_data["Número de Factura"]
        IN  IF inv = ABSENT THEN number = NA
            ELSE LET series == IF inv.InvoiceSeriesCode = <<>> THEN <<>>
                               ELSE inv.InvoiceSeriesCode[1]
                     num == IF inv.InvoiceNumber = <<>> THEN NA
                            ELSE inv.InvoiceNumber[1]
                 IN  /\ Len(number) = Len(series) + Len(num)
                     /\ SubSeq(number, 1, Len(series)) = series
                     /\ SubSeq(number, Len(series) + 1, Len(number)) = num

C16_Witness ==
    /\ Extracted
    /\ xml_root.Invoice # ABSENT
    /\ xml_root.Invoice.InvoiceSeriesCode = <<<<"A">>>>
    /\ xml_root.Invoice.InvoiceNumber = <<<<"5">>>>
    /\ invoice_data["Número de Factura"] = <<"A", "5">>

\* C17: the class description is the table's description for OO, OR, OC, CO,
\* CR and CC, and "N/A" for anything else, never the raw code
C17_InvoiceClass ==
    Extracted =>
        LET inv == xml_root.Invoice
            desc == invoice_data["Clase Factura"]
            code == IF inv = ABSENT \/ inv.InvoiceClass = <<>> THEN <<"absent">>
                    ELSE inv.InvoiceClass[1]
        IN  CASE code = <<"O", "O">> -> desc = <<"Original">>
              [] code = <<"O", "R">> -> desc = <<"Original Rectificativa">>
              [] code = <<"O", "C">> -> desc = <<"Original Recapitulativa">>
              [] code = <<"C", "O">> -> desc = <<"Duplicado Original">>
              [] code = <<"C", "R">> -> desc = <<"Duplicado Rectificativa">>
              [] code = <<"C", "C">> -> desc = <<"Duplicado Recapitulativa">>
              [] OTHER -> desc = NA /\ desc # code

C17_Witness ==
    /\ Extracted
    /\ xml_root.Invoice # ABSENT
    /\ xml_root.Invoice.InvoiceClass = <<<<"X", "X">>>>
    /\ invoice_data["Clase Factura"] = NA

(***************************************************************************)
(* C18: _fmt_rate.                                                         *)
(***************************************************************************)
Formatted == rate # NONE

\* a parsed value in units of 1/10000
scaled(v) ==
    LET n == to_int(v.int) * 10000
               + to_int(SubSeq(v.frac \o <<"0", "0", "0", "0">>, 1, 4))
    IN  IF v.neg THEN 0 - n ELSE n

\* C18: a rate text that parses as a number is formatted as its value rounded
\* to two decimals, without trailing zeros after the point and without a
\* trailing point, the integer digits kept; a text that does not parse is
\* returned trimmed
C18_FmtRate ==
    Formatted =>
        LET val == float(replace_comma(withheld_rate))
            out == float(rate.s)
        IN  IF val.raised THEN rate.s = strip(withheld_rate)
            ELSE /\ ~out.raised
                 /\ Len(out.val.frac) <= 2
                 /\ scaled(out.val) - scaled(val.val) \in -50..50
                 /\ rate.s # <<>>
                 /\ rate.s[Len(rate.s)] # "."
                 /\ positions(rate.s, ".") # {} => rate.s[Len(rate.s)] # "0"
                 /\ positions(rate.s, " ") = {}

C18_Witness ==
    /\ Formatted
    /\ withheld_rate = <<"1", "0", ".", "0", "0">>
    /\ rate.s = <<"1", "0">>

(***************************************************************************)
(* C19: the extractor run again on the same parsed document (SpecTwice).   *)
(***************************************************************************)
\* a step from one run's record to the next run's
NextRun == pc = "generate" /\ pc' = "generate"

\* where the clock stands with respect to the first certificate's validity
Side(t) ==
    IF t < FirstCert.not_before THEN "before"
    ELSE IF t > FirstCert.not_after THEN "after"
    ELSE "inside"

Normalised == inf_pc = "conformidad"

\* t is s without its leading and trailing blanks
Trimmed(s, t) ==
    \E i \in 1..(Len(s) + 1) : \E j \in 0..Len(s) :
        /\ t = SubSeq(s, i, j)
        /\ \A k \in 1..Len(s) : (k < i \/ k > j) => s[k] = " "
        /\ t # <<>> => (t[1] # " " /\ t[Len(t)] # " ")

OnlyDigits(t) == t # <<>> /\ \A k \in 1..Len(t) : t[k] \in DIGITS

\* C20: a missing or empty code gives ""; a code that is all digits once
\* trimmed is left-padded with zeros to two characters at least and otherwise
\* unchanged; any other code is returned trimmed, without padding
C20_NormalizeAreaCode ==
    Normalised =>
        IF body.area_code \in {ABSENT, NONE} THEN area.area_code = <<>>
        ELSE IF body.area_code.s = <<>> THEN area.area_code = <<>>
        ELSE \E t \in {SubSeq(body.area_code.s, i, j) :
                          i \in 1..(Len(body.area_code.s) + 1),
                          j \in 0..Len(body.area_code.s)} :
                /\ Trimmed(body.area_code.s, t)
                /\ IF OnlyDigits(t)
                   THEN LET out == area.area_code
                            pad == Len(out) - Len(t)
                        IN  /\ Len(out) = IF Len(t) < 2 THEN 2 ELSE Len(t)
                            /\ SubSeq(out, pad + 1, Len(out)) = t
                            /\ \A k \in 1..pad : out[k] = "0"
                   ELSE area.area_code = t

C20_Witness ==
    /\ Normalised
    /\ body.area_code = Str(<<" ", "7", " ">>)
    /\ area.area_code = <<"0", "7">>

\* ======================================================================
\* Unexpected failures while a report is laid out (SpecFail)
\* ======================================================================
\* ReportLab's doc.build, the fonts and images it opens and the buffer it
\* writes to can fail with an error that no validation foresees; the text
\* of the error is the library's or the operating system's.
LayoutErrors ==
    {<<"LayoutError:", "Flowable", "too", "large", "on", "page", "1">>,
     <<"cannot", "open", "resource", "/srv/sical/fonts">>}

\* _generate_pdf_from_invoice raises while it lays the invoice out
GeneratePdfFails ==
    /\ pc = "generate"
    /\ UNCHANGED <<infVars, raceVars, rateVars, logVars, pureVars>>
    /\ calls' = calls \cup {"_generate_pdf_from_invoice"}
    /\ \E e \in LayoutErrors : exc' = Exception(e)
    /\ pc' = "api_except"
    /\ UNCHANGED <<form, et_doc, fecha_registro, invoice_data, pdf, response>>
    /\ UNCHANGED <<unwrapVars, sigVars>>

\* generate_acta_pdf raises after the request has passed validation
GenerateActaFails ==
    /\ inf_pc = "conformidad"
    /\ LET r == validar_conformidad(payload)
       IN  /\ ~r.raised
           /\ acta_data' =
                    [area_code |-> area.area_code,
                     area_name |-> area.area_name,
                     area_logo |-> area.area_logo,
                     resultado_conformidad |-> r.val,
                     motivo_no_conformidad |->
                        strip(or_empty(dict_get(payload, "motivo_no_conformidad")))]
    /\ \E e \in LayoutErrors : inf_exc' = Exception(e)
    /\ inf_pc' = IF entry = "api" THEN "api_except" ELSE "done"
    /\ UNCHANGED <<body, entry, payload, files, logo_files, areas_cache,
                   areas_loaded, area, inf_response>>

FailUploads == {<<>>, XML_DECL \o ROOT_ELEMENT}

FailBodies ==
    [resultado_conformidad : {ABSENT, Word("conforme")},
     motivo_no_conformidad : {ABSENT},
     area_code : {ABSENT, Str(<<"1">>)},
     area_name : {ABSENT},
     areas_csv_path : {ABSENT}]

FailInit ==
    /\ xsig_bytes \in FailUploads
    /\ et_doc \in UploadDocs
    /\ form = [fecha_registro |-> NONE, fecha_registro_date |-> NONE,
               hora_registro_time |-> NONE]
    /\ pc = "api_xml_a_pdf"
    /\ files = [p \in CsvPaths |-> NO_FILE]
    /\ logo_files = {}
    /\ xml_bytes = <<>>
    /\ unwrap_pc = "idle"
    /\ xml_root = Root(<<>>, <<>>)
    /\ crypto_has_utc = TRUE
    /\ now = 0
    /\ firma = [estado |-> <<>>]
    /\ sig_calls = {}
    /\ sig_pc = "idle"
    /\ fecha_registro = NONE
    /\ exc = NoException
    /\ invoice_data = NoInvoice
    /\ calls = {}
    /\ pdf = NoPdf
    /\ response = NoResponse
    /\ body = NoBody
    /\ entry = "idle"
    /\ payload = NoBody
    /\ areas_cache = EMPTY_CACHE
    /\ areas_loaded = << >>
    /\ inf_pc = "idle"
    /\ area = NoArea
    /\ inf_exc = NoException
    /\ acta_data = NONE
    /\ inf_response = NoResponse
    /\ threads = [t \in Threads |-> IdleThread]
    /\ withheld_rate = <<>>
    /\ rate = NONE
    /\ logged = <<>>
    /\ util_value = NONE
    /\ util_max_length = 0
    /\ util_result = NONE
    /\ util_pc = "idle"
    /\ sig_info = NONE
    /\ _CLIENT_INITED = FALSE
    /\ cx_Oracle = NONE
    /\ init_attempts = 0
    /\ oracle_calls = 0
    /\ oracle_result = NONE
    /\ connection = NONE

FailNext ==
    \/ ApiXmlAPdf
    \/ GenerarPdfDesdeXsig
    \/ RenderPdfFromXsig
    \/ ExtractInvoiceData
    \/ GeneratePdf
    \/ GeneratePdfFails
    \/ ApiReturn
    \/ ApiExcept
    \/ ApiGenerarInformeOf(FailBodies) /\ UNCHANGED <<unwrapVars, sigVars, pipeVars, raceVars, rateVars, pureVars>>
    \/ CallAssemblerOf(FailBodies) /\ UNCHANGED <<unwrapVars, sigVars, pipeVars, raceVars, rateVars, pureVars>>
    \/ AreaLookup /\ UNCHANGED <<unwrapVars, sigVars, pipeVars, raceVars, rateVars, logVars, pureVars>>
    \/ ConformidadYActa /\ UNCHANGED <<unwrapVars, sigVars, pipeVars, raceVars, rateVars, logVars, pureVars>>
    \/ GenerateActaFails /\ UNCHANGED <<unwrapVars, sigVars, pipeVars, raceVars, rateVars, logVars, pureVars>>
    \/ InformeReturn /\ UNCHANGED <<unwrapVars, sigVars, pipeVars, raceVars, rateVars, logVars, pureVars>>
    \/ InformeExcept /\ UNCHANGED <<unwrapVars, sigVars, pipeVars, raceVars, rateVars, pureVars>>

SpecFail == FailInit /\ [][FailNext]_vars

\* the text t occurs inside the text s
Contains(s, t) ==
    \E i \in 1..(Len(s) - Len(t) + 1) : SubSeq(s, i, i + Len(t) - 1) = t

Unexpected(e) == e.type = "Exception"

\* a record of the log carries the whole of the exception e
LoggedInFull(log, e) ==
    \E i \in 1..Len(log) : log[i].level = "ERROR" /\ log[i].exc_info = e

\* C21: when an unexpected failure of the layout reaches an endpoint's
\* handler, the response is a 5xx whose message does not contain the text
\* of the exception, and the exception is written in full to the server log
C21_GenericInternalError ==
    [][/\ (pc = "api_except" /\ pc' = "done" /\ Unexpected(exc)) =>
            /\ response'.status_code \in 500..599
            /\ ~Contains(response'.detail, exc.msg)
            /\ LoggedInFull(logged', exc)
       /\ (inf_pc = "api_except" /\ inf_pc' = "done" /\ Unexpected(inf_exc)) =>
            /\ inf_response'.status_code \in 500..599
            /\ ~Contains(inf_response'.detail, inf_exc.msg)
            /\ LoggedInFull(logged', inf_exc)]_vars

\* ======================================================================
\* core.utils: sanitize_text and make_safe_filename
\* ======================================================================
MaxTextLen == 3

MAX_FACTURA_LENGTH == 50
MAX_FILENAME_LENGTH == 128
\* the quantifier {1,50} written in ALLOWED_CHARS_PATTERN
ALLOWED_CHARS_MAX == 50

\* \w: letters of any alphabet, digits and the underscore
LETTERS == {"a", "A", "ñ"}
word_char(c) == c \in LETTERS \cup DIGITS \cup {"_"}

\* _ALLOWED_RE.match(v) with ALLOWED_CHARS_PATTERN = ^[\w/\-\.]{1,50}$
\* (v is stripped, so the newline that $ tolerates cannot be there)
_ALLOWED_RE_match(v) ==
    /\ Len(v) \in 1..ALLOWED_CHARS_MAX
    /\ \A i \in 1..Len(v) : word_char(v[i]) \/ v[i] \in {"/", "-", "."}

VALOR_VACIO == <<"El valor no puede estar vacío.">>
VALOR_EXCEDE(max_length) ==
    <<"El valor excede la longitud máxima de", max_length, "caracteres.">>
VALOR_INVALIDO(max_length) ==
    <<"Valor inválido. Usa letras, números, guiones, guiones bajos, barras o puntos",
      1, max_length>>

sanitize_text(value, max_length) ==
    LET v == strip(IF value = NONE THEN <<>> ELSE value.s)
    IN  IF v = <<>> THEN Raise(ValueError(VALOR_VACIO))
        ELSE IF Len(v) > max_length
        THEN Raise(ValueError(VALOR_EXCEDE(max_length)))
        ELSE IF ~_ALLOWED_RE_match(v)
        THEN Raise(ValueError(VALOR_INVALIDO(max_length)))
        ELSE Ret(v)

\* ---- inputs ----
UtilChars == {"a", "7", "_", "/", "-", ".", " ", "@"}
ShortTexts == UNION {[1..n -> UtilChars] : n \in 0..MaxTextLen}
Repeat(c, n) == [i \in 1..n |-> c]
LongTexts ==
    {p \o Repeat(c, n) \o p :
        p \in {<<>>, <<" ">>}, c \in {"a", "@"},
        n \in {ALLOWED_CHARS_MAX, ALLOWED_CHARS_MAX + 1, ALLOWED_CHARS_MAX + 11}}

SanitizeValues == {NONE} \cup {Str(t) : t \in ShortTexts \cup LongTexts}
SanitizeMaxLengths == {1, 2, MAX_FACTURA_LENGTH, MAX_FACTURA_LENGTH + 10}

SanitizeText ==
    /\ util_pc = "sanitize_text"
    /\ util_result' = sanitize_text(util_value, util_max_length)
    /\ util_pc' = "sanitized"
    /\ UNCHANGED <<util_value, util_max_length>>

SanitizeInit ==
    /\ util_value \in SanitizeValues
    /\ util_max_length \in SanitizeMaxLengths
    /\ util_pc = "sanitize_text"
    /\ xsig_bytes = <<>>
    /\ xml_bytes = <<>>
    /\ unwrap_pc = "idle"
    /\ xml_root = Root(<<>>, <<>>)
    /\ crypto_has_utc = TRUE
    /\ now = 0
    /\ firma = [estado |-> <<>>]
    /\ sig_calls = {}
    /\ sig_pc = "idle"
    /\ form = [fecha_registro |-> NONE, fecha_registro_date |-> NONE,
               hora_registro_time |-> NONE]
    /\ et_doc = Root(<<>>, <<>>)
    /\ pc = "idle"
    /\ fecha_registro = NONE
    /\ exc = NoException
    /\ invoice_data = NoInvoice
    /\ calls = {}
    /\ pdf = NoPdf
    /\ response = NoResponse
    /\ body = NoBody
    /\ entry = "idle"
    /\ payload = NoBody
    /\ files = [p \in CsvPaths |-> NO_FILE]
    /\ logo_files = {}
    /\ areas_cache = EMPTY_CACHE
    /\ areas_loaded = << >>
    /\ inf_pc = "off"
    /\ area = NoArea
    /\ inf_exc = NoException
    /\ acta_data = NONE
    /\ inf_response = NoResponse
    /\ threads = [t \in Threads |-> IdleThread]
    /\ withheld_rate = <<>>
    /\ rate = NONE
    /\ logged = <<>>
    /\ util_result = NONE
    /\ sig_info = NONE
    /\ _CLIENT_INITED = FALSE
    /\ cx_Oracle = NONE
    /\ init_attempts = 0
    /\ oracle_calls = 0
    /\ oracle_result = NONE
    /\ connection = NONE

SanitizeNext == SanitizeText /\ UNCHANGED <<handlerVars, orderVars, oracleVars>>

SpecSanitize == SanitizeInit /\ [][SanitizeNext]_vars

AllowedText(t) ==
    \A i \in 1..Len(t) : word_char(t[i]) \/ t[i] \in {"/", "-", "."}

\* C22: if the value trimmed of surrounding whitespace is non-empty, has at
\* most max_length characters and consists only of letters, digits,
\* underscore, slash, hyphen and dot, sanitize_text returns exactly the
\* trimmed value; otherwise it raises ValueError, reporting emptiness before
\* excess length and excess length before invalid characters
C22_SanitizeText ==
    util_pc = "sanitized" =>
        LET w == IF util_value = NONE THEN <<>> ELSE util_value.s
        IN  \E t \in {SubSeq(w, i, j) : i \in 1..(Len(w) + 1), j \in 0..Len(w)} :
            /\ Trimmed(w, t)
            /\ IF t # <<>> /\ Len(t) <= util_max_length /\ AllowedText(t)
               THEN util_result = Ret(t)
               ELSE /\ util_result.raised
                    /\ util_result.exc.type = "ValueError"
                    /\ util_result.exc.msg =
                        IF t = <<>> THEN VALOR_VACIO
                        ELSE IF Len(t) > util_max_length
                        THEN VALOR_EXCEDE(util_max_length)
                        ELSE VALOR_INVALIDO(util_max_length)

\* ---- make_safe_filename ----
\* [\w\.-]: the characters the pattern of make_safe_filename leaves alone
filename_char(c) == word_char(c) \/ c \in {".", "-"}

RECURSIVE re_sub_runs(_)

\* re.sub(r"[^\w\.-]", "_", s): without the +, every character is replaced
re_sub_each(s) ==
    [i \in 1..Len(s) |-> IF filename_char(s[i]) THEN s[i] ELSE "_"]

\* re.sub(r"[^\w\.-]+", "_", s): the two halves of s are substituted and
\* joined; a match that spans the middle gives one underscore, not two
re_sub_runs(s) ==
    IF s = <<>> THEN <<>>
    ELSE IF Len(s) = 1 THEN <<IF filename_char(s[1]) THEN s[1] ELSE "_">>
    ELSE LET h == Len(s) \div 2
             l == re_sub_runs(SubSeq(s, 1, h))
             r == re_sub_runs(SubSeq(s, h + 1, Len(s)))
         IN  IF ~filename_char(s[h]) /\ ~filename_char(s[h + 1])
             THEN l \o Tail(r)
             ELSE l \o r

\* s[:n]
slice_to(s, n) ==
    IF n >= 0 THEN SubSeq(s, 1, Min(n, Len(s)))
    ELSE SubSeq(s, 1, Max(0, Len(s) + n))

make_safe_filename(base, max_length) ==
    LET b == re_sub_runs(strip(base))
    IN  IF Len(b) > max_length THEN slice_to(b, max_length) ELSE b

FilenameValues ==
    {Str(t) : t \in ShortTexts \cup
                {Repeat("a", n) : n \in {MAX_FILENAME_LENGTH, MAX_FILENAME_LENGTH + 1}}}
FilenameMaxLengths == {0, 1, 2, MaxTextLen, MAX_FILENAME_LENGTH}

MakeSafeFilename ==
    /\ util_pc = "make_safe_filename"
    /\ util_result' = Str(make_safe_filename(util_value.s, util_max_length))
    /\ util_pc' = "named"
    /\ UNCHANGED <<util_value, util_max_length>>

FilenameInit ==
    /\ util_value \in FilenameValues
    /\ util_max_length \in FilenameMaxLengths
    /\ util_pc = "make_safe_filename"
    /\ xsig_bytes = <<>>
    /\ xml_bytes = <<>>
    /\ unwrap_pc = "idle"
    /\ xml_root = Root(<<>>, <<>>)
    /\ crypto_has_utc = TRUE
    /\ now = 0
    /\ firma = [estado |-> <<>>]
    /\ sig_calls = {}
    /\ sig_pc = "idle"
    /\ form = [fecha_registro |-> NONE, fecha_registro_date |-> NONE,
               hora_registro_time |-> NONE]
    /\ et_doc = Root(<<>>, <<>>)
    /\ pc = "idle"
    /\ fecha_registro = NONE
    /\ exc = NoException
    /\ invoice_data = NoInvoice
    /\ calls = {}
    /\ pdf = NoPdf
    /\ response = NoResponse
    /\ body = NoBody
    /\ entry = "idle"
    /\ payload = NoBody
    /\ files = [p \in CsvPaths |-> NO_FILE]
    /\ logo_files = {}
    /\ areas_cache = EMPTY_CACHE
    /\ areas_loaded = << >>
    /\ inf_pc = "off"
    /\ area = NoArea
    /\ inf_exc = NoException
    /\ acta_data = NONE
    /\ inf_response = NoResponse
    /\ threads = [t \in Threads |-> IdleThread]
    /\ withheld_rate = <<>>
    /\ rate = NONE
    /\ logged = <<>>
    /\ util_result = NONE
    /\ sig_info = NONE
    /\ _CLIENT_INITED = FALSE
    /\ cx_Oracle = NONE
    /\ init_attempts = 0
    /\ oracle_calls = 0
    /\ oracle_result = NONE
    /\ connection = NONE

FilenameNext == MakeSafeFilename /\ UNCHANGED <<handlerVars, orderVars, oracleVars>>

SpecFilename == FilenameInit /\ [][FilenameNext]_vars

\* position k of t opens a maximal run of characters that are not allowed
RunStart(t, k) ==
    ~filename_char(t[k]) /\ (k = 1 \/ filename_char(t[k - 1]))

\* the place in the output of the character, or of the run, at position i
OutPos(t, i) ==
    Cardinality({k \in 1..i : filename_char(t[k]) \/ RunStart(t, k)})

\* C23: the result has at most max_length characters, all of them word
\* characters, dots or hyphens; it is the trimmed input with each maximal
\* run of other characters replaced by one underscore, cut at max_length;
\* it is the trimmed input when that is allowed and fits; and the function
\* applied to its own result returns it unchanged
C23_MakeSafeFilename ==
    util_pc = "named" =>
        LET r == util_result.s
            n == util_max_length
        IN  \E t \in {SubSeq(util_value.s, i, j) :
                        i \in 1..(Len(util_value.s) + 1), j \in 0..Len(util_value.s)} :
            /\ Trimmed(util_value.s, t)
            /\ Len(r) <= n
            /\ \A k \in 1..Len(r) : filename_char(r[k])
            /\ Len(r) = Min(n, OutPos(t, Len(t)))
            /\ \A i \in 1..Len(t) :
                (filename_char(t[i]) \/ RunStart(t, i)) /\ OutPos(t, i) <= n =>
                    r[OutPos(t, i)] = IF filename_char(t[i]) THEN t[i] ELSE "_"
            /\ ((\A k \in 1..Len(t) : filename_char(t[k])) /\ Len(t) <= n) => r = t
            /\ make_safe_filename(r, n) = r

C23_Witness ==
    /\ util_pc = "named"
    /\ util_value = Str(<<"@", " ", "a">>)
    /\ util_max_length = 2
    /\ util_result = Str(<<"_", "a">>)

\* ======================================================================
\* Attribute-level degradation in the validator (SpecSig)
\* ======================================================================
\* the text of the first ds:X509Certificate element decodes to a certificate
CertDecodes ==
    /\ xml_root.X509Certificate # <<>>
    /\ Head(xml_root.X509Certificate).kind = "cert"

\* each of the four attributes is the certificate's own value, or its
\* sentinel when the certificate has none, independently of the others
AttributesDegrade ==
    /\ firma.firmante =
        IF FirstCert.cn = MISSING THEN "N/A" ELSE FirstCert.cn
    /\ firma.nif =
        IF FirstCert.serial = MISSING THEN "N/A" ELSE FirstCert.serial
    /\ firma.autoridad_certificadora =
        IF FirstCert.issuer_cn = MISSING THEN "No disponible"
        ELSE FirstCert.issuer_cn
    /\ firma.algoritmo =
        IF FirstCert.hash_alg = MISSING THEN "N/A" ELSE upper(FirstCert.hash_alg)

DateTexts ==
    {<<>>,
     <<"2", "0", "2", "4", "-", "0", "2", "-", "2", "9">>,
     <<"2", "0", "2", "3", "-", "0", "2", "-", "2", "9">>,
     <<"2", "0", "2", "4", "-", "3", "-", "7">>,
     <<"2", "0", "2", "4", "-", "0", "3", "-", " ", "7">>,
     <<" ", "2", "0", "2", "4", "-", "0", "2", "-", "2", "9">>,
     <<"0", "7", "/", "0", "3", "/", "2", "0", "2", "4">>,
     NA}

\* a date element: absent, or present with one of the texts
DateElements == {<<>>} \cup {<<d>> : d \in DateTexts}

DateRoots ==
    {[Root(<<>>, <<>>) EXCEPT
        !.Invoice = [Invoice(<<<<"5">>>>, <<>>, <<>>, <<>>, d, <<>>, <<>>)
                        EXCEPT !.InvoicingPeriod = p, !.Installment = i]] :
        d \in DateElements,
        p \in {ABSENT} \cup {InvoicingPeriod(s, e) : s, e \in DateElements},
        i \in {ABSENT} \cup {Installment(u, <<>>) : u \in DateElements}}

DatesInit ==
    /\ xml_root \in DateRoots
    /\ pc = "extract"
    /\ xsig_bytes = <<>>
    /\ xml_bytes = <<>>
    /\ unwrap_pc = "idle"
    /\ crypto_has_utc = TRUE
    /\ now = 0
    /\ firma = [estado |-> <<>>]
    /\ sig_calls = {}
    /\ sig_pc = "idle"
    /\ form = [fecha_registro |-> NONE, fecha_registro_date |-> NONE,
               hora_registro_time |-> NONE]
    /\ et_doc = Root(<<>>, <<>>)
    /\ fecha_registro = NONE
    /\ exc = NoException
    /\ invoice_data = NoInvoice
    /\ calls = {}
    /\ pdf = NoPdf
    /\ response = NoResponse
    /\ body = NoBody
    /\ entry = "idle"
    /\ payload = NoBody
    /\ files = [p \in CsvPaths |-> NO_FILE]
    /\ logo_files = {}
    /\ areas_cache = EMPTY_CACHE
    /\ areas_loaded = << >>
    /\ inf_pc = "off"
    /\ area = NoArea
    /\ inf_exc = NoException
    /\ acta_data = NONE
    /\ inf_response = NoResponse
    /\ threads = [t \in Threads |-> IdleThread]
    /\ withheld_rate = <<>>
    /\ rate = NONE
    /\ logged = <<>>
    /\ util_value = NONE
    /\ util_max_length = 0
    /\ util_result = NONE
    /\ util_pc = "idle"
    /\ sig_info = NONE
    /\ _CLIENT_INITED = FALSE
    /\ cx_Oracle = NONE
    /\ init_attempts = 0
    /\ oracle_calls = 0
    /\ oracle_result = NONE
    /\ connection = NONE

DatesNext == ExtractInvoiceData

SpecDates == DatesInit /\ [][DatesNext]_vars

\* the text has the form YYYY-MM-DD
StrictYmd(raw) ==
    /\ Len(raw) = 10
    /\ raw[5] = "-" /\ raw[8] = "-"
    /\ \A i \in {1, 2, 3, 4, 6, 7, 9, 10} : raw[i] \in DIGITS

\* and denotes a day of the calendar
RealDate(raw) ==
    LET y == to_int(SubSeq(raw, 1, 4))
        mo == to_int(SubSeq(raw, 6, 7))
        d == to_int(SubSeq(raw, 9, 10))
    IN  y >= 1 /\ mo \in 1..12 /\ d \in 1..days_in_month(y, mo)

DateAsClaimed(raw, out) ==
    out = IF StrictYmd(raw) /\ RealDate(raw)
          THEN <<raw[9], raw[10], "/", raw[6], raw[7], "/",
                 raw[1], raw[2], raw[3], raw[4]>>
          ELSE raw

\* C25: the extraction never raises on a date, and the issue date, the
\* billing period's start and end and the installment's due date are
\* DD/MM/YYYY when their text has the form YYYY-MM-DD and denotes a real
\* date, and the raw text unchanged in every other case
C25_DatesStrictOrRaw ==
    /\ pc # "api_except"
    /\ (Extracted /\ xml_root.Invoice # ABSENT) =>
        LET inv == xml_root.Invoice
        IN  /\ DateAsClaimed(findtext(inv.IssueDate, NA), invoice_data["Fecha"])
            /\ inv.InvoicingPeriod # ABSENT =>
                /\ inv.InvoicingPeriod.StartDate # <<>> =>
                    DateAsClaimed(Head(inv.InvoicingPeriod.StartDate),
                                  invoice_data["PeriodoFactura"].Inicio)
                /\ inv.InvoicingPeriod.EndDate # <<>> =>
                    DateAsClaimed(Head(inv.InvoicingPeriod.EndDate),
                                  invoice_data["PeriodoFactura"].Fin)
            /\ (inv.Installment # ABSENT /\ inv.Installment.InstallmentDueDate # <<>>) =>
                    DateAsClaimed(Head(inv.Installment.InstallmentDueDate),
                                  invoice_data["PaymentDetails"].due_date)

\* ======================================================================
\* Charges and discounts of a line (SpecCharges)
\* ======================================================================
MaxCharges == 2

\* a reason element: absent, empty, only whitespace, or with a text
ReasonNodes ==
    {<<>>, <<<<>>>>, <<<<" ">>>>, <<<<"x">>>>, <<<<" ", "y", " ">>>>}

ChargeLists ==
    UNION {[1..n -> {Charge(r, <<<<"1">>>>) : r \in ReasonNodes}] : n \in 0..MaxCharges}
DiscountLists ==
    UNION {[1..n -> {Discount(r, <<<<"1">>>>) : r \in ReasonNodes}] : n \in 0..MaxCharges}

ChargeRoots ==
    {[Root(<<>>, <<>>) EXCEPT
        !.Invoice =
            Invoice(<<<<"5">>>>, <<>>, <<>>, <<>>, <<>>, <<>>,
                    <<[InvoiceLine(<<<<"d">>>>, <<>>, <<>>, <<>>, <<>>)
                          EXCEPT !.Charges = cs, !.Discounts = ds]>>)] :
        cs \in ChargeLists, ds \in DiscountLists}

ChargesInit ==
    /\ xml_root \in ChargeRoots
    /\ pc = "extract"
    /\ xsig_bytes = <<>>
    /\ xml_bytes = <<>>
    /\ unwrap_pc = "idle"
    /\ crypto_has_utc = TRUE
    /\ now = 0
    /\ firma = [estado |-> <<>>]
    /\ sig_calls = {}
    /\ sig_pc = "idle"
    /\ form = [fecha_registro |-> NONE, fecha_registro_date |-> NONE,
               hora_registro_time |-> NONE]
    /\ et_doc = Root(<<>>, <<>>)
    /\ fecha_registro = NONE
    /\ exc = NoException
    /\ invoice_data = NoInvoice
    /\ calls = {}
    /\ pdf = NoPdf
    /\ response = NoResponse
    /\ body = NoBody
    /\ entry = "idle"
    /\ payload = NoBody
    /\ files = [p \in CsvPaths |-> NO_FILE]
    /\ logo_files = {}
    /\ areas_cache = EMPTY_CACHE
    /\ areas_loaded = << >>
    /\ inf_pc = "off"
    /\ area = NoArea
    /\ inf_exc = NoException
    /\ acta_data = NONE
    /\ inf_response = NoResponse
    /\ threads = [t \in Threads |-> IdleThread]
    /\ withheld_rate = <<>>
    /\ rate = NONE
    /\ logged = <<>>
    /\ util_value = NONE
    /\ util_max_length = 0
    /\ util_result = NONE
    /\ util_pc = "idle"
    /\ sig_info = NONE
    /\ _CLIENT_INITED = FALSE
    /\ cx_Oracle = NONE
    /\ init_attempts = 0
    /\ oracle_calls = 0
    /\ oracle_result = NONE
    /\ connection = NONE

ChargesNext == ExtractInvoiceData

SpecCharges == ChargesInit /\ [][ChargesNext]_vars

\* the entry's reason for a node whose reason element is the given one
ReasonAsClaimed(node, reason, default) ==
    LET text == findtext(node, <<>>)
    IN  /\ reason # <<>>
        /\ IF \E k \in 1..Len(text) : text[k] # " "
           THEN Trimmed(text, reason)
           ELSE reason = default

\* C26: every line's record lists one entry per Charge and per Discount
\* node in document order, and each entry's reason is non-empty: the node's
\* own reason text when it has one, otherwise "Cargo" for a charge and
\* "Dcto." for a discount (reason element absent, empty or only whitespace)
C26_ChargeReasons ==
    Extracted =>
        \A i \in 1..Len(xml_root.Invoice.Items) :
            LET line == xml_root.Invoice.Items[i]
                item == invoice_data["Conceptos"][i]
            IN  /\ Len(item["Cargos"]) = Len(line.Charges)
                /\ Len(item["Descuentos"]) = Len(line.Discounts)
                /\ \A k \in 1..Len(line.Charges) :
                    ReasonAsClaimed(line.Charges[k].ChargeReason,
                                    item["Cargos"][k].reason,
                                    <<"C", "a", "r", "g", "o">>)
                /\ \A k \in 1..Len(line.Discounts) :
                    ReasonAsClaimed(line.Discounts[k].DiscountReason,
                                    item["Descuentos"][k].reason,
                                    <<"D", "c", "t", "o", ".">>)

\* ======================================================================
\* The extractor and the validator on one tree, in either order (SpecOrder)
\* ======================================================================
\* et_doc is the tree as the parser built it, xml_root the tree as it is
\* after the calls made on it so far.
OrderRoots == SignedRoots \cup TwiceInvoiceRoots

\* _extract_signature_info_from_xml(root) called on its own
ValidateSignature ==
    /\ sig_info = NONE
    /\ _CLIENT_INITED = FALSE
    /\ cx_Oracle = NONE
    /\ init_attempts = 0
    /\ oracle_calls = 0
    /\ oracle_result = NONE
    /\ connection = NONE
    /\ pc \in {"extract", "generate"}
    /\ sig_info' =
         _extract_signature_info_from_xml(xml_root, now, crypto_has_utc).val
    /\ xml_root' = after_find(xml_root)
    /\ UNCHANGED <<crypto_has_utc, now, firma, sig_calls, sig_pc>>
    /\ UNCHANGED <<unwrapVars, pipeVars, infVars, raceVars, rateVars, logVars,
                   utilVars, oracleVars>>

OrderInit ==
    /\ et_doc \in OrderRoots
    /\ xml_root = et_doc
    /\ crypto_has_utc \in BOOLEAN
    /\ now \in Times
    /\ pc = "extract"
    /\ xsig_bytes = <<>>
    /\ xml_bytes = <<>>
    /\ unwrap_pc = "idle"
    /\ firma = [estado |-> <<>>]
    /\ sig_calls = {}
    /\ sig_pc = "idle"
    /\ form = [fecha_registro |-> NONE, fecha_registro_date |-> NONE,
               hora_registro_time |-> NONE]
    /\ fecha_registro = NONE
    /\ exc = NoException
    /\ invoice_data = NoInvoice
    /\ calls = {}
    /\ pdf = NoPdf
    /\ response = NoResponse
    /\ body = NoBody
    /\ entry = "idle"
    /\ payload = NoBody
    /\ files = [p \in CsvPaths |-> NO_FILE]
    /\ logo_files = {}
    /\ areas_cache = EMPTY_CACHE
    /\ areas_loaded = << >>
    /\ inf_pc = "off"
    /\ area = NoArea
    /\ inf_exc = NoException
    /\ acta_data = NONE
    /\ inf_response = NoResponse
    /\ threads = [t \in Threads |-> IdleThread]
    /\ withheld_rate = <<>>
    /\ rate = NONE
    /\ logged = <<>>
    /\ util_value = NONE
    /\ util_max_length = 0
    /\ util_result = NONE
    /\ util_pc = "idle"
    /\ sig_info = NONE
    /\ _CLIENT_INITED = FALSE
    /\ cx_Oracle = NONE
    /\ init_attempts = 0
    /\ oracle_calls = 0
    /\ oracle_result = NONE
    /\ connection = NONE

OrderNext ==
    \/ ValidateSignature
    \/ ExtractInvoiceData

SpecOrder == OrderInit /\ [][OrderNext]_vars

BeingRejected ==
    /\ inf_pc \in {"areas", "conformidad", "api_except"}
    /\ validar_conformidad(payload).raised

\* C28: no step of a request that is rejected (invalid
\* resultado_conformidad, or no_conforme without a reason) changes the
\* process-wide area-table cache
C28_RejectedLeavesCache ==
    [][BeingRejected => areas_cache' = areas_cache]_vars

\* ======================================================================
\* The loader's keys and the request's keys (SpecKeys)
\* ======================================================================
\* codes of one and of two characters, numeric or not; "1" and "01" yield
\* the same key
KeyRows ==
    <<  <<<<"1">>, <<"U", "n", "o">>>>,
        <<<<"A">>, <<"L", "e", "t", "r", "a">>>>,
        <<<<"0", "1">>, <<"P", "r", "i", "m", "e", "r", "a">>>>,
        <<<<"A", "B">>, <<"D", "o", "s">>>>,
        <<<<"7">>, <<"S", "i", "e", "t", "e">>>> >>

KeyBodies ==
    [resultado_conformidad : {Word("conforme"), Word("no_conforme")},
     motivo_no_conformidad : {ABSENT, Str(<<"x">>)},
     area_code : {Str(KeyRows[k][1]) : k \in 1..Len(KeyRows)},
     area_name : {ABSENT, Str(<<"N">>)},
     areas_csv_path : {ABSENT}]

KeysInit ==
    /\ files = [p \in CsvPaths |-> IF p = CSV_DEFAULT THEN CsvFile(KeyRows) ELSE NO_FILE]
    /\ logo_files \in LogoSets
    /\ inf_pc = "idle"
    /\ xsig_bytes = <<>>
    /\ xml_bytes = <<>>
    /\ unwrap_pc = "idle"
    /\ xml_root = Root(<<>>, <<>>)
    /\ crypto_has_utc = TRUE
    /\ now = 0
    /\ firma = [estado |-> <<>>]
    /\ sig_calls = {}
    /\ sig_pc = "idle"
    /\ form = [fecha_registro |-> NONE, fecha_registro_date |-> NONE,
               hora_registro_time |-> NONE]
    /\ et_doc = Root(<<>>, <<>>)
    /\ pc = "idle"
    /\ fecha_registro = NONE
    /\ exc = NoException
    /\ invoice_data = NoInvoice
    /\ calls = {}
    /\ pdf = NoPdf
    /\ response = NoResponse
    /\ body = NoBody
    /\ entry = "idle"
    /\ payload = NoBody
    /\ areas_cache = EMPTY_CACHE
    /\ areas_loaded = << >>
    /\ area = NoArea
    /\ inf_exc = NoException
    /\ acta_data = NONE
    /\ inf_response = NoResponse
    /\ threads = [t \in Threads |-> IdleThread]
    /\ withheld_rate = <<>>
    /\ rate = NONE
    /\ logged = <<>>
    /\ util_value = NONE
    /\ util_max_length = 0
    /\ util_result = NONE
    /\ util_pc = "idle"
    /\ sig_info = NONE
    /\ _CLIENT_INITED = FALSE
    /\ cx_Oracle = NONE
    /\ init_attempts = 0
    /\ oracle_calls = 0
    /\ oracle_result = NONE
    /\ connection = NONE

KeysNext ==
    \/ ApiGenerarInformeOf(KeyBodies) /\ UNCHANGED <<unwrapVars, sigVars, pipeVars, raceVars, rateVars, pureVars>>
    \/ CallAssemblerOf(KeyBodies) /\ UNCHANGED <<unwrapVars, sigVars, pipeVars, raceVars, rateVars, pureVars>>
    \/ AreaLookup /\ UNCHANGED <<unwrapVars, sigVars, pipeVars, raceVars, rateVars, logVars, pureVars>>
    \/ ConformidadYActa /\ UNCHANGED <<unwrapVars, sigVars, pipeVars, raceVars, rateVars, logVars, pureVars>>
    \/ InformeReturn /\ UNCHANGED <<unwrapVars, sigVars, pipeVars, raceVars, rateVars, logVars, pureVars>>
    \/ InformeExcept /\ UNCHANGED <<unwrapVars, sigVars, pipeVars, raceVars, rateVars, pureVars>>

SpecKeys == KeysInit /\ [][KeysNext]_vars

\* the rows of the file whose code yields the key the loader stores for c
RowsOfKey(rows, c) ==
    {k \in 1..Len(rows) :
        /\ Len(rows[k]) >= 2
        /\ strip(rows[k][1]) # <<>>
        /\ zfill2(strip(rows[k][1])) = zfill2(c)}

\* C29: a request that sends the code c of a row of the CSV, and no
\* area_name, resolves area_name to the name stored for c: the name of the
\* last row that yields the loader's key for c, for numeric and non-numeric
\* codes alike
C29_KeysAgree ==
    (Normalised /\ body.area_name = ABSENT) =>
        LET rows == files[CSV_DEFAULT].rows
            c == body.area_code.s
            ks == RowsOfKey(rows, c)
        IN  ks # {} =>
                area.area_name =
                    strip(rows[CHOOSE k \in ks : \A j \in ks : j <= k][2])

\* ======================================================================
\* core.config: init_oracle_client_once and get_connection (SpecOracle)
\* ======================================================================
MaxCalls == 6

RuntimeError(msg) == [type |-> "RuntimeError", msg |-> msg]

\* what cx_Oracle.init_oracle_client does when it is called: it returns, or
\* it raises an error with one of these texts
INIT_OK == <<>>
InitErrors ==
    {<<"Oracle", "Client", "library", "Already", "Initialized">>,
     <<"DPI-1047:", "Cannot", "locate", "a", "64-bit", "Oracle", "Client",
       "library">>,
     <<"DPI-1072:", "the", "Oracle", "Client", "library", "version", "is",
       "unsupported">>}
InitOutcomes == {INIT_OK} \cup InitErrors

\* str.lower() on the words of the error texts
lower(text) ==
    [i \in 1..Len(text) |->
        CASE text[i] = "Already" -> "already"
          [] text[i] = "Initialized" -> "initialized"
          [] text[i] = "Oracle" -> "oracle"
          [] text[i] = "Client" -> "client"
          [] text[i] = "Cannot" -> "cannot"
          [] text[i] = "DPI-1047:" -> "dpi-1047:"
          [] text[i] = "DPI-1072:" -> "dpi-1072:"
          [] OTHER -> text[i]]

NO_IMPORT == <<"No se pudo importar 'oracledb'.">>
NO_INIT(e) == <<"No se pudo iniciar el cliente Oracle en", "client_dir:">> \o e

\* variant: the flag is not consulted, every call initialises the client
init_oracle_client_every_call(inited, module, outcome) ==
    IF module = NONE
    THEN [inited |-> inited, attempted |-> FALSE,
          result |-> Raise(RuntimeError(NO_IMPORT))]
    ELSE IF outcome # INIT_OK
            /\ ~Contains(lower(outcome), <<"already", "initialized">>)
    THEN [inited |-> inited, attempted |-> TRUE,
          result |-> Raise(RuntimeError(NO_INIT(outcome)))]
    ELSE [inited |-> TRUE, attempted |-> TRUE, result |-> Ret(NONE)]

\* init_oracle_client_once(): the flag after the call, whether
\* cx_Oracle.init_oracle_client was called, and what the call returned or
\* raised; outcome is what the client library does if it is called
init_oracle_client_once(inited, module, outcome) ==
    IF inited
    THEN [inited |-> inited, attempted |-> FALSE, result |-> Ret(NONE)]
    ELSE IF module = NONE
    THEN [inited |-> inited, attempted |-> FALSE,
          result |-> Raise(RuntimeError(NO_IMPORT))]
    ELSE IF outcome # INIT_OK
            /\ ~Contains(lower(outcome), <<"already", "initialized">>)
    THEN [inited |-> inited, attempted |-> TRUE,
          result |-> Raise(RuntimeError(NO_INIT(outcome)))]
    ELSE [inited |-> TRUE, attempted |-> TRUE, result |-> Ret(NONE)]

InitOracleClientOnce ==
    /\ oracle_calls < MaxCalls
    /\ oracle_calls' = oracle_calls + 1
    /\ \E outcome \in InitOutcomes :
        LET r == init_oracle_client_once(_CLIENT_INITED, cx_Oracle, outcome)
        IN  /\ _CLIENT_INITED' = r.inited
            /\ init_attempts' = init_attempts + (IF r.attempted THEN 1 ELSE 0)
            /\ oracle_result' = r.result
    /\ UNCHANGED <<cx_Oracle, connection>>

\* get_connection(): the client is initialised first; the connection is
\* then made, or a missing variable or the database refuses it
ConnectResults ==
    {Ret(Word("conn")), Raise(ValueError(<<"Faltan variables de conexión:">>)),
     Raise([type |-> "ConnectionError", msg |-> <<"Fallo conectando a Oracle.">>])}

GetConnection ==
    /\ oracle_calls < MaxCalls
    /\ oracle_calls' = oracle_calls + 1
    /\ \E outcome \in InitOutcomes, c \in ConnectResults :
        LET r == init_oracle_client_once(_CLIENT_INITED, cx_Oracle, outcome)
        IN  /\ _CLIENT_INITED' = r.inited
            /\ init_attempts' = init_attempts + (IF r.attempted THEN 1 ELSE 0)
            /\ oracle_result' = r.result
            /\ connection' = IF r.result.raised THEN r.result ELSE c
    /\ UNCHANGED cx_Oracle

OracleInit ==
    /\ cx_Oracle \in {NONE, Word("oracledb")}
    /\ xsig_bytes = <<>>
    /\ xml_bytes = <<>>
    /\ unwrap_pc = "idle"
    /\ xml_root = Root(<<>>, <<>>)
    /\ crypto_has_utc = TRUE
    /\ now = 0
    /\ firma = [estado |-> <<>>]
    /\ sig_calls = {}
    /\ sig_pc = "idle"
    /\ form = [fecha_registro |-> NONE, fecha_registro_date |-> NONE,
               hora_registro_time |-> NONE]
    /\ et_doc = Root(<<>>, <<>>)
    /\ pc = "idle"
    /\ fecha_registro = NONE
    /\ exc = NoException
    /\ invoice_data = NoInvoice
    /\ calls = {}
    /\ pdf = NoPdf
    /\ response = NoResponse
    /\ body = NoBody
    /\ entry = "idle"
    /\ payload = NoBody
    /\ files = [p \in CsvPaths |-> NO_FILE]
    /\ logo_files = {}
    /\ areas_cache = EMPTY_CACHE
    /\ areas_loaded = << >>
    /\ inf_pc = "off"
    /\ area = NoArea
    /\ inf_exc = NoException
    /\ acta_data = NONE
    /\ inf_response = NoResponse
    /\ threads = [t \in Threads |-> IdleThread]
    /\ withheld_rate = <<>>
    /\ rate = NONE
    /\ logged = <<>>
    /\ util_value = NONE
    /\ util_max_length = 0
    /\ util_result = NONE
    /\ util_pc = "idle"
    /\ sig_info = NONE
    /\ _CLIENT_INITED = FALSE
    /\ init_attempts = 0
    /\ oracle_calls = 0
    /\ oracle_result = NONE
    /\ connection = NONE

OracleNext ==
    \/ InitOracleClientOnce /\ UNCHANGED <<handlerVars, utilVars, orderVars>>
    \/ GetConnection /\ UNCHANGED <<handlerVars, utilVars, orderVars>>

SpecOracle == OracleInit /\ [][OracleNext]_vars

\* C30: the flag never goes from true back to false; once it is true the
\* client initialisation is not attempted again; a call that fails raises
\* RuntimeError and leaves the flag false; and while the flag is false and
\* the driver is importable a call attempts the initialisation (again)
C30_InitOnce ==
    [][/\ _CLIENT_INITED => _CLIENT_INITED'
       /\ _CLIENT_INITED => init_attempts' = init_attempts
       /\ (oracle_calls' # oracle_calls /\ oracle_result'.raised) =>
            /\ oracle_result'.exc.type = "RuntimeError"
            /\ ~_CLIENT_INITED'
       /\ (oracle_calls' # oracle_calls /\ ~oracle_result'.raised) =>
            _CLIENT_INITED'
       /\ (oracle_calls' # oracle_calls /\ ~_CLIENT_INITED /\ cx_Oracle # NONE) =>
            init_attempts' = init_attempts + 1]_vars

\* a call failed, a later call succeeded, a third call did not initialise
C30_Witness ==
    /\ _CLIENT_INITED
    /\ oracle_calls = 3
    /\ init_attempts = 2
    /\ ~oracle_result.raised

=============================================================================
